---- MODULE Spec2Model ----
(***************************************************************************)
(* Gene description generation: the GO annotation selector of the WormBase *)
(* raw data fetcher (data_fetcher.py) and the sentence composition         *)
(* functions (genedescriptions/sentence_generation_functions.py).          *)
(*                                                                         *)
(* Python strings that are only compared for equality are TLA+ strings;    *)
(* strings that are sliced, joined or sorted are sequences of one-character*)
(* strings.  Python's None is the string "None".                           *)
(***************************************************************************)
EXTENDS Integers, Sequences, FiniteSets, TLC

VARIABLES
    obo_file,      \* the lines of the gene ontology file at the source address
    go_ontology,   \* WBRawDataFetcher.go_ontology: go id -> GOOntologyEntry
    go_data,       \* WBRawDataFetcher.go_data: defaultdict(set), gene id -> set of GOAnnotation
    fetcher_pc,    \* "idle", "loading" while load_go_data reads the annotation file,
                   \* "returning" when get_go_annotations has built its list
    go_call,       \* the get_go_annotations call that is returning: arguments,
                   \* iteration order of the annotation set, returned list
    cs_call,       \* a compose_sentence call: its arguments and, once returned, its text
    ox_call,       \* a concatenate_words_with_oxford_comma call: its argument and result
    ss_call,       \* a _get_single_sentence call: its arguments and, once returned, its outcome
    ss_other,      \* a second _get_single_sentence call, to compare two Sentences
    oh_call,       \* a generate_ortholog_sentence_wormbase_human call
    on_call,       \* a generate_ortholog_sentence_wormbase_non_c_elegans call
    ah_call,       \* a generate_orthology_sentence_alliance_human call
    ip_call,       \* a get_best_human_ortholog_for_info_poor call
    dm_orthologs,  \* WBDataManager.orthologs: defaultdict of defaultdict(list),
                   \* gene id -> species name -> list of [ortholog id, symbol, methods]
    dm_pc,         \* "new" before load_orthology_from_file has run, then "loaded"
    dm_call        \* the get_best_orthologs_for_gene call that is returning

\* the calls of the sentence and ortholog sentence generators
generator_calls == <<ss_call, ss_other, oh_call, on_call>>

\* the calls of the other ortholog functions and the state of the data manager
selector_calls == <<ah_call, ip_call, dm_orthologs, dm_pc, dm_call>>

vars == <<obo_file, go_ontology, go_data, fetcher_pc, go_call, cs_call, ox_call, generator_calls,
          selector_calls>>

None == "None"

\* no call
NoCall == [op |-> "none"]

\* no generator is called
\* no other ortholog function is called and the data manager is as constructed
SelectorsIdle ==
    /\ ah_call = NoCall
    /\ ip_call = NoCall
    /\ dm_orthologs = << >>
    /\ dm_pc = "new"
    /\ dm_call = NoCall

GeneratorsIdle ==
    /\ ss_call = NoCall
    /\ ss_other = NoCall
    /\ oh_call = NoCall
    /\ on_call = NoCall
    /\ SelectorsIdle

EmptyMap == [k \in {} |-> {}]

Range(s) == {s[i] : i \in DOMAIN s}

(***************************************************************************)
(* Bounds of the model                                                     *)
(***************************************************************************)
\* most annotations kept in go_data over all genes
MaxAnnots == 3
\* most items handed to concatenate_words_with_oxford_comma
MaxWords == 4
\* most term names handed to compose_sentence
MaxTerms == 3

(***************************************************************************)
(* data_fetcher.py: input files                                            *)
(***************************************************************************)
Genes == {"WBGene1", "WBGene2"}
GoIds == {"GO:1", "GO:2"}
EvidenceCodes == {"EXP", "IDA", "IEA"}
References == {"PMID:1", "PMID:2"}

\* A line of the OBO file is the list line.strip().split(": ").
OboTerm == <<"[Term]">>
OboId(i) == <<"id", i>>
OboName(n) == <<"name", n>>
OboObsolete(v) == <<"is_obsolete", v>>

\* Ontology files.  In the first the terms are followed by a [Typedef]
\* stanza, as in the gene ontology releases; the others end with a term.
OboFiles ==
    { << OboTerm, OboId("GO:1"), OboName("binding"),
         OboTerm, OboId("GO:2"), OboName("transport"), OboObsolete("true"),
         <<"[Typedef]">>, OboId("part_of"), OboName("part of") >>,
      << OboTerm, OboId("GO:1"), OboName("binding"), OboObsolete("true"),
         OboTerm, OboId("GO:2"), OboName("transport"),
         OboTerm, OboId("GO:3"), OboName("growth") >>,
      << OboTerm, OboId("GO:1"), OboName("binding"),
         OboTerm, OboId("GO:2"), OboName("transport"), OboObsolete("true") >> }

\* The columns of a GAF line that load_go_data reads.  The annotation file
\* has every kind of line for the first gene and one line for the second.
GafLines ==
    [ gene : {"WBGene1"}, qualifier : {""}, go_id : GoIds, reference : References,
      evidence_code : EvidenceCodes, aspect : {"F"}, annotation_ext : {""} ]
    \cup
    [ gene : {"WBGene2"}, qualifier : {""}, go_id : {"GO:1"}, reference : {"PMID:1"},
      evidence_code : {"EXP"}, aspect : {"P"}, annotation_ext : {""} ]

(***************************************************************************)
(* data_fetcher.py: _load_go_ontology                                      *)
(***************************************************************************)
GOOntologyEntry(name, is_obsolete) == [name |-> name, is_obsolete |-> is_obsolete]

\* d[k] = v on a dict
Put(d, k, v) == [x \in DOMAIN d \cup {k} |-> IF x = k THEN v ELSE d[x]]

RECURSIVE ScanOboLines(_, _, _, _)
ScanOboLines(lines, go_id, go_entry, ontology) ==
    IF lines = <<>> THEN ontology
    ELSE LET fields == Head(lines)
             rest == Tail(lines)
         IN  IF fields = OboTerm
             THEN IF go_entry.name # None /\ go_id # None
                  THEN ScanOboLines(rest, None, GOOntologyEntry(None, None),
                                    Put(ontology, go_id, go_entry))
                  ELSE ScanOboLines(rest, go_id, go_entry, ontology)
             ELSE IF fields[1] = "id"
                  THEN ScanOboLines(rest, fields[2], go_entry, ontology)
             ELSE IF fields[1] = "name"
                  THEN ScanOboLines(rest, go_id, [go_entry EXCEPT !.name = fields[2]], ontology)
             ELSE IF fields[1] = "is_obsolete"
                  THEN ScanOboLines(rest, go_id, [go_entry EXCEPT !.is_obsolete = fields[2]], ontology)
             ELSE ScanOboLines(rest, go_id, go_entry, ontology)

_load_go_ontology(ontology, lines) ==
    ScanOboLines(lines, None, GOOntologyEntry(None, None), ontology)

(***************************************************************************)
(* data_fetcher.py: load_go_data                                           *)
(***************************************************************************)
GoAspect(letter) ==
    CASE letter = "C" -> "CELLULAR_COMPONENT"
      [] letter = "F" -> "MOLECULAR_FUNCTION"
      [] letter = "P" -> "BIOLOGICAL_PROCESS"
      [] OTHER -> None

GOAnnotation(fields, ontology) ==
    [ go_id |-> fields.go_id,
      qualifier |-> fields.qualifier,
      paper_reference |-> fields.reference,
      evidence_code |-> fields.evidence_code,
      aspect |-> GoAspect(fields.aspect),
      annotation_ext |-> fields.annotation_ext,
      go_name |-> ontology[fields.go_id].name,
      is_obsolete |-> (ontology[fields.go_id].is_obsolete = "true") ]

\* self.go_data[key] on the defaultdict(set): a missing key is inserted
Touch(data, key) ==
    IF key \in DOMAIN data THEN data ELSE Put(data, key, {})

AddAnnotation(data, key, annotation) ==
    Put(data, key, Touch(data, key)[key] \cup {annotation})

AnnotationCount(data) ==
    Cardinality({p \in (DOMAIN data) \X (UNION {data[h] : h \in DOMAIN data}) : p[2] \in data[p[1]]})

\* load_go_data up to the first line of the annotation file
load_go_data ==
    /\ fetcher_pc = "idle"
    /\ go_ontology' = _load_go_ontology(go_ontology, obo_file)
    /\ fetcher_pc' = "loading"
    /\ UNCHANGED <<obo_file, go_data, go_call, cs_call, ox_call, generator_calls, selector_calls>>

\* one line of the annotation file whose term the ontology knows
load_go_data_line ==
    /\ fetcher_pc = "loading"
    /\ \E fields \in GafLines :
          /\ fields.go_id \in DOMAIN go_ontology
          /\ go_data' = AddAnnotation(go_data, fields.gene, GOAnnotation(fields, go_ontology))
          /\ AnnotationCount(go_data') <= MaxAnnots
    /\ UNCHANGED <<obo_file, go_ontology, fetcher_pc, go_call, cs_call, ox_call, generator_calls, selector_calls>>

\* a line whose term is missing from go_ontology: the lookup raises KeyError
load_go_data_key_error ==
    /\ fetcher_pc = "loading"
    /\ \E fields \in GafLines : fields.go_id \notin DOMAIN go_ontology
    /\ fetcher_pc' = "idle"
    /\ UNCHANGED <<obo_file, go_ontology, go_data, go_call, cs_call, ox_call, generator_calls, selector_calls>>

\* the end of the annotation file
load_go_data_end ==
    /\ fetcher_pc = "loading"
    /\ fetcher_pc' = "idle"
    /\ UNCHANGED <<obo_file, go_ontology, go_data, go_call, cs_call, ox_call, generator_calls, selector_calls>>

(***************************************************************************)
(* data_fetcher.py: get_go_annotations                                     *)
(***************************************************************************)
\* Priority lists: the orderings of distinct evidence codes, first the highest
\* priority, last the lowest.
PriorityLists ==
    UNION { {p \in [1..n -> EvidenceCodes] : \A i, j \in 1..n : i # j => p[i] # p[j]}
            : n \in 0..Cardinality(EvidenceCodes) }

\* priority_map without reversed(): the last code gets the highest rank
priority_map_not_reversed(priority_list) ==
    [ c \in Range(priority_list) |->
        (CHOOSE i \in DOMAIN priority_list : priority_list[i] = c) - 1 ]

\* dict(zip(priority_list, reversed(range(len(priority_list)))))
priority_map(priority_list) ==
    [ c \in Range(priority_list) |->
        LET last == CHOOSE i \in DOMAIN priority_list :
                       /\ priority_list[i] = c
                       /\ \A j \in DOMAIN priority_list : priority_list[j] = c => j <= i
        IN  Len(priority_list) - last ]

\* the iteration orders of a set
IterationOrders(S) ==
    {o \in [1..Cardinality(S) -> S] : \A i, j \in DOMAIN o : i # j => o[i] # o[j]}

\* the list comprehension without its condition
FilterObsolete_keep_all(order, include_obsolete) == order

\* [annotation for annotation in self.go_data[geneid] if include_obsolete or not annotation.is_obsolete]
FilterObsolete(order, include_obsolete) ==
    SelectSeq(order, LAMBDA annotation : include_obsolete \/ ~annotation.is_obsolete)

\* the loop body without the test on go_id_selected_annotation
SelectAnnotation_always_added(selected, annotation, pmap) ==
    IF annotation.evidence_code \in DOMAIN pmap
    THEN Append(selected, annotation)
    ELSE selected

\* the loop body without the test on priority_map.keys(): an unlisted code
\* never wins a comparison but is stored for a term seen for the first time
SelectAnnotation_unlisted_kept(selected, annotation, pmap) ==
    LET rank(a) == IF a.evidence_code \in DOMAIN pmap THEN pmap[a.evidence_code] ELSE -1
    IN  IF \E k \in DOMAIN selected : selected[k].go_id = annotation.go_id
        THEN LET k == CHOOSE k \in DOMAIN selected : selected[k].go_id = annotation.go_id
             IN  IF rank(annotation) > rank(selected[k])
                 THEN [selected EXCEPT ![k] = annotation]
                 ELSE selected
        ELSE Append(selected, annotation)

\* the loop body with >= for >
SelectAnnotation_replace_on_tie(selected, annotation, pmap) ==
    IF annotation.evidence_code \in DOMAIN pmap
    THEN IF \E k \in DOMAIN selected : selected[k].go_id = annotation.go_id
         THEN LET k == CHOOSE k \in DOMAIN selected : selected[k].go_id = annotation.go_id
              IN  IF pmap[annotation.evidence_code] >= pmap[selected[k].evidence_code]
                  THEN [selected EXCEPT ![k] = annotation]
                  ELSE selected
         ELSE Append(selected, annotation)
    ELSE selected

\* One iteration of the selection loop.  The dict go_id_selected_annotation is
\* the sequence of its values in insertion order; its keys are their go_id.
SelectAnnotation(selected, annotation, pmap) ==
    IF annotation.evidence_code \in DOMAIN pmap
    THEN IF \E k \in DOMAIN selected : selected[k].go_id = annotation.go_id
         THEN LET k == CHOOSE k \in DOMAIN selected : selected[k].go_id = annotation.go_id
              IN  IF pmap[annotation.evidence_code] > pmap[selected[k].evidence_code]
                  THEN [selected EXCEPT ![k] = annotation]
                  ELSE selected
         ELSE Append(selected, annotation)
    ELSE selected

RECURSIVE SelectLoop(_, _, _)
SelectLoop(selected, annotations, pmap) ==
    IF annotations = <<>> THEN selected
    ELSE SelectLoop(SelectAnnotation(selected, Head(annotations), pmap), Tail(annotations), pmap)

\* get_go_annotations up to its return statement
get_go_annotations ==
    /\ fetcher_pc = "idle"
    /\ \E geneid \in Genes, include_obsolete \in BOOLEAN, priority_list \in PriorityLists :
          /\ go_data' = Touch(go_data, geneid)
          /\ \E order \in IterationOrders(go_data'[geneid]) :
                go_call' = [ op |-> "get_go_annotations",
                             geneid |-> geneid,
                             include_obsolete |-> include_obsolete,
                             priority_list |-> priority_list,
                             order |-> order,
                             result |-> SelectLoop(<<>>, FilterObsolete(order, include_obsolete),
                                                   priority_map(priority_list)) ]
    /\ fetcher_pc' = "returning"
    /\ UNCHANGED <<obo_file, go_ontology, cs_call, ox_call, generator_calls, selector_calls>>

\* the return of get_go_annotations
get_go_annotations_return ==
    /\ fetcher_pc = "returning"
    /\ fetcher_pc' = "idle"
    /\ go_call' = NoCall
    /\ UNCHANGED <<obo_file, go_ontology, go_data, cs_call, ox_call, generator_calls, selector_calls>>

\* the fetcher after construction, and the ontology file at the source address
InitFetcher ==
    /\ obo_file \in OboFiles
    /\ go_ontology = EmptyMap
    /\ go_data = EmptyMap
    /\ fetcher_pc = "idle"
    /\ go_call = NoCall
    /\ cs_call = NoCall
    /\ ox_call = NoCall
    /\ GeneratorsIdle

NextFetcher ==
    \/ load_go_data
    \/ load_go_data_line
    \/ load_go_data_key_error
    \/ load_go_data_end
    \/ get_go_annotations
    \/ get_go_annotations_return

SpecFetcher == InitFetcher /\ [][NextFetcher]_vars

(***************************************************************************)
(* sentence_generation_functions.py: strings                               *)
(***************************************************************************)
UpperCase ==
    <<"A", "B", "C", "D", "E", "F", "G", "H", "I", "J", "K", "L", "M",
      "N", "O", "P", "Q", "R", "S", "T", "U", "V", "W", "X", "Y", "Z">>
LowerCase ==
    <<"a", "b", "c", "d", "e", "f", "g", "h", "i", "j", "k", "l", "m",
      "n", "o", "p", "q", "r", "s", "t", "u", "v", "w", "x", "y", "z">>

IndexOf(s, c) == CHOOSE i \in DOMAIN s : s[i] = c

\* the code point of a character, which is what Python compares strings by
ord(c) ==
    CASE c = " " -> 32
      [] c = "(" -> 40
      [] c = ")" -> 41
      [] c = "," -> 44
      [] c \in Range(UpperCase) -> 64 + IndexOf(UpperCase, c)
      [] c \in Range(LowerCase) -> 96 + IndexOf(LowerCase, c)

\* a < b on Python strings
RECURSIVE StrLess(_, _)
StrLess(a, b) ==
    IF b = <<>> THEN FALSE
    ELSE IF a = <<>> THEN TRUE
    ELSE IF a[1] = b[1] THEN StrLess(Tail(a), Tail(b))
    ELSE ord(a[1]) < ord(b[1])

\* sorted() left out: the list as it was given
sorted_not_sorted(words) == words

RECURSIVE InsertSorted(_, _)
InsertSorted(word, words) ==
    IF words = <<>> THEN <<word>>
    ELSE IF StrLess(Head(words), word)
         THEN <<Head(words)>> \o InsertSorted(word, Tail(words))
         ELSE <<word>> \o words

\* sorted(words)
RECURSIVE sorted(_)
sorted(words) ==
    IF words = <<>> THEN <<>> ELSE InsertSorted(Head(words), sorted(Tail(words)))

\* separator.join(words)
RECURSIVE join(_, _)
join(separator, words) ==
    IF words = <<>> THEN <<>>
    ELSE IF Len(words) = 1 THEN words[1]
    ELSE words[1] \o separator \o join(separator, Tail(words))

\* text[0:-1]
DropLast3_one_character(text) ==
    IF Len(text) > 1 THEN SubSeq(text, 1, Len(text) - 1) ELSE <<>>

\* text[0:-3]
DropLast3(text) ==
    IF Len(text) > 3 THEN SubSeq(text, 1, Len(text) - 3) ELSE <<>>

the_cell == <<"t", "h", "e", " ", "c", "e", "l", "l">>
the_Cell == <<"t", "h", "e", " ", "C", "e", "l", "l">>
widely == <<"w", "i", "d", "e", "l", "y">>
several_tissues_including ==
    <<"s", "e", "v", "e", "r", "a", "l", " ", "t", "i", "s", "s", "u", "e", "s", " ", "i", "n", "c", "l", "u", "d", "i", "n", "g", " ">>
multiple_suffix == <<" ", "(", "m", "u", "l", "t", "i", "p", "l", "e", ")">>
and_separator == <<" ", "a", "n", "d", " ">>
comma_separator == <<",", " ">>
oxford_separator == <<",", " ", "a", "n", "d", " ">>

(***************************************************************************)
(* sentence_generation_functions.py: concatenate_words_with_oxford_comma   *)
(***************************************************************************)
\* the threshold len(words) > 1 for len(words) > 2
concatenate_words_comma_for_two(words) ==
    IF Len(words) > 1
    THEN join(comma_separator, SubSeq(words, 1, Len(words) - 1))
            \o oxford_separator \o words[Len(words)]
    ELSE join(and_separator, words)

concatenate_words_with_oxford_comma(words) ==
    IF Len(words) > 2
    THEN join(comma_separator, SubSeq(words, 1, Len(words) - 1))
            \o oxford_separator \o words[Len(words)]
    ELSE join(and_separator, words)

\* the sequences over S of length at most n
SeqUpTo(S, n) == UNION {[1..k -> S] : k \in 0..n}

Words == { <<"a">>, <<"b">>, <<"c", "d">> }

\* a fetcher that is not used
FetcherIdle ==
    /\ obo_file = <<>>
    /\ go_ontology = EmptyMap
    /\ go_data = EmptyMap
    /\ fetcher_pc = "idle"
    /\ go_call = NoCall

\* a call with its argument drawn, before the function runs
InitOxford ==
    /\ FetcherIdle
    /\ GeneratorsIdle
    /\ cs_call = NoCall
    /\ ox_call \in [ op : {"call"}, words : SeqUpTo(Words, MaxWords), text : {None} ]

concatenate_words_call ==
    /\ ox_call.op = "call"
    /\ ox_call' = [ op |-> "return",
                    words |-> ox_call.words,
                    text |-> concatenate_words_with_oxford_comma(ox_call.words) ]
    /\ UNCHANGED <<obo_file, go_ontology, go_data, fetcher_pc, go_call, cs_call, generator_calls, selector_calls>>

NextOxford == concatenate_words_call

SpecOxford == InitOxford /\ [][NextOxford]_vars

(***************************************************************************)
(* sentence_generation_functions.py: compose_sentence                      *)
(***************************************************************************)
compose_sentence(prefix, additional_prefix, term_names, postfix, ancestors_with_multiple_children, rename_cell) ==
    LET prefix1 == prefix \o additional_prefix \o <<" ">>
        sorted_names == sorted(term_names)
        term_names1 ==
            [ i \in DOMAIN sorted_names |->
                IF sorted_names[i] \in ancestors_with_multiple_children
                THEN sorted_names[i] \o multiple_suffix
                ELSE sorted_names[i] ]
        postfix1 == IF postfix # <<>> THEN <<" ">> \o postfix ELSE postfix
    IN  IF rename_cell /\ (the_cell \in Range(term_names1) \/ the_Cell \in Range(term_names1))
        THEN IF Len(term_names1) = 1
             THEN DropLast3(prefix1) \o concatenate_words_with_oxford_comma(<<widely>>) \o postfix1
             ELSE (IF additional_prefix = <<>>
                   THEN prefix1 \o several_tissues_including
                   ELSE prefix1)
                  \o concatenate_words_with_oxford_comma(
                        SelectSeq(term_names1, LAMBDA term : term # the_cell /\ term # the_Cell))
                  \o postfix1
        ELSE prefix1 \o concatenate_words_with_oxford_comma(term_names1) \o postfix1

Prefixes == { <<"i", "s", " ", "e", "x", "p", "r", "e", "s", "s", "e", "d", " ", "i", "n">>, <<>> }
AdditionalPrefixes == { <<>>, <<" ", "t", "h", "e">> }
Postfixes == { <<>>, <<"i", "n", " ", "v", "i", "v", "o">> }
TermNames == { the_cell, the_Cell, <<"a", "x", "o", "n">>, <<"g", "u", "t">> }

\* a call with its arguments drawn, before the function runs
InitCompose ==
    /\ FetcherIdle
    /\ GeneratorsIdle
    /\ ox_call = NoCall
    /\ cs_call \in [ op : {"call"},
                      prefix : Prefixes,
                      additional_prefix : AdditionalPrefixes,
                      term_names : SeqUpTo(TermNames, MaxTerms),
                      postfix : Postfixes,
                      ancestors_with_multiple_children : SUBSET TermNames,
                      rename_cell : BOOLEAN,
                      text : {None} ]

compose_sentence_call ==
    /\ cs_call.op = "call"
    /\ cs_call' = [ cs_call EXCEPT
                      !.op = "return",
                      !.text = compose_sentence(cs_call.prefix, cs_call.additional_prefix,
                                                cs_call.term_names, cs_call.postfix,
                                                cs_call.ancestors_with_multiple_children,
                                                cs_call.rename_cell) ]
    /\ UNCHANGED <<obo_file, go_ontology, go_data, fetcher_pc, go_call, ox_call, generator_calls, selector_calls>>

NextCompose == compose_sentence_call

SpecCompose == InitCompose /\ [][NextCompose]_vars

(***************************************************************************)
(* Properties of get_go_annotations                                        *)
(***************************************************************************)
Returned == go_call.op = "get_go_annotations"

\* the annotation set of the gene of the call
GeneAnnotations == go_data[go_call.geneid]

\* position of an evidence code in the priority list of the call (1 = first)
Position(code) ==
    CHOOSE i \in DOMAIN go_call.priority_list :
        /\ go_call.priority_list[i] = code
        /\ \A j \in DOMAIN go_call.priority_list : go_call.priority_list[j] = code => i <= j

Listed(a) == a.evidence_code \in Range(go_call.priority_list)

\* the annotations of a term that pass the obsolete filter and have a listed code
Surviving(t) ==
    {a \in GeneAnnotations :
        a.go_id = t /\ Listed(a) /\ (go_call.include_obsolete \/ ~a.is_obsolete)}

ResultSet == Range(go_call.result)

ResultFor(t) == {a \in ResultSet : a.go_id = t}

\* position of an annotation in the iteration order of the call
Encounter(a) == CHOOSE i \in DOMAIN go_call.order : go_call.order[i] = a

\* C1: for every term, among the gene's annotations of the term that pass the
\* obsolete filter and have a listed evidence code, the result holds one whose
\* evidence code stands earliest in the priority list, and no other annotation
\* of the term.
C1_HighestPriorityReturned ==
    Returned =>
        \A t \in GoIds :
            Surviving(t) # {} =>
                \E r \in Surviving(t) :
                    /\ ResultFor(t) = {r}
                    /\ \A a \in Surviving(t) : Position(r.evidence_code) <= Position(a.evidence_code)

\* an IEA annotation is iterated before an EXP annotation of the same term,
\* EXP ranks above IEA, and the EXP annotation is what the call returned
C1_Witness ==
    /\ Returned
    /\ go_call.priority_list = <<"EXP", "IDA", "IEA">>
    /\ \E a, b \in Surviving("GO:1") :
          /\ a.evidence_code = "IEA"
          /\ b.evidence_code = "EXP"
          /\ Encounter(a) < Encounter(b)
          /\ ResultFor("GO:1") = {b}

\* C2: the result has at most one annotation per term id, and every
\* annotation of the result is in the annotation set of the gene.
C2_OnePerTermFromInput ==
    Returned =>
        /\ \A j, k \in DOMAIN go_call.result :
              j # k => go_call.result[j].go_id # go_call.result[k].go_id
        /\ ResultSet \subseteq GeneAnnotations

\* three annotations, two of them on one term, give a result of two
C2_Witness ==
    /\ Returned
    /\ Cardinality(Surviving("GO:1")) = 2
    /\ Cardinality(Surviving("GO:2")) = 1
    /\ Len(go_call.result) = 2

\* C3: no annotation of the result has an evidence code missing from the
\* priority list, and a term whose annotations all have unlisted codes has no
\* annotation in the result.
C3_UnlistedExcluded ==
    Returned =>
        /\ \A r \in ResultSet : Listed(r)
        /\ \A t \in GoIds :
              (\A a \in GeneAnnotations : a.go_id = t => ~Listed(a)) => ResultFor(t) = {}

\* a term with two annotations, both unlisted, next to a term that is returned
C3_Witness ==
    /\ Returned
    /\ Cardinality({a \in GeneAnnotations : a.go_id = "GO:1" /\ ~Listed(a)}) = 2
    /\ Surviving("GO:1") = {}
    /\ ResultFor("GO:1") = {}
    /\ ResultFor("GO:2") # {}

\* C4: without include_obsolete the result has no obsolete annotation and a
\* term keeps its best non-obsolete listed annotation whatever obsolete
\* annotations the gene has; with include_obsolete every term with a listed
\* annotation, obsolete or not, has its best listed annotation in the result.
C4_ObsoleteFilter ==
    Returned =>
        /\ ~go_call.include_obsolete =>
              /\ \A r \in ResultSet : ~r.is_obsolete
              /\ \A t \in GoIds :
                    LET live == {a \in GeneAnnotations : a.go_id = t /\ Listed(a) /\ ~a.is_obsolete}
                    IN  live # {} =>
                          \E r \in live :
                              /\ r \in ResultSet
                              /\ \A a \in live : Position(r.evidence_code) <= Position(a.evidence_code)
        /\ go_call.include_obsolete =>
              \A t \in GoIds :
                  LET all == {a \in GeneAnnotations : a.go_id = t /\ Listed(a)}
                  IN  all # {} =>
                        \E r \in all :
                            /\ r \in ResultSet
                            /\ \A a \in all : Position(r.evidence_code) <= Position(a.evidence_code)

\* an obsolete annotation with a listed code is iterated first and left out,
\* and the non-obsolete annotation of the other term is returned
C4_Witness ==
    /\ Returned
    /\ ~go_call.include_obsolete
    /\ Len(go_call.order) >= 2
    /\ go_call.order[1].is_obsolete
    /\ Listed(go_call.order[1])
    /\ go_call.result # <<>>

\* with include_obsolete an obsolete annotation is returned
C4_WitnessIncluded ==
    /\ Returned
    /\ go_call.include_obsolete
    /\ \E r \in ResultSet : r.is_obsolete

\* C5: the annotation returned for a term is the one iterated first among the
\* surviving annotations of the term that have its evidence code.
C5_FirstSeenKeptOnTie ==
    Returned =>
        \A r \in ResultSet :
            \A a \in Surviving(r.go_id) :
                a.evidence_code = r.evidence_code => Encounter(r) <= Encounter(a)

\* two surviving annotations of one term with the same evidence code, which is
\* the best of the term: the first iterated is returned
C5_Witness ==
    /\ Returned
    /\ \E a, b \in Surviving("GO:1") :
          /\ a # b
          /\ a.evidence_code = b.evidence_code
          /\ Encounter(a) < Encounter(b)
          /\ a \in ResultSet
          /\ Encounter(a) > 1

\* C6: a call of get_go_annotations leaves go_data (its keys and its
\* annotation sets) and go_ontology as they were.
C6_NoSideEffects ==
    [][get_go_annotations => (go_data' = go_data /\ go_ontology' = go_ontology)]_vars

(***************************************************************************)
(* Properties of concatenate_words_with_oxford_comma                       *)
(***************************************************************************)
\* the first k of the words, each but the first preceded by ", "
RECURSIVE CommaJoined(_, _)
CommaJoined(words, k) ==
    IF k = 0 THEN <<>>
    ELSE IF k = 1 THEN words[1]
    ELSE CommaJoined(words, k - 1) \o <<",", " ">> \o words[k]

\* the text the Oxford comma rule gives for a list of words
OxfordText(words) ==
    CASE Len(words) = 0 -> <<>>
      [] Len(words) = 1 -> words[1]
      [] Len(words) = 2 -> words[1] \o <<" ", "a", "n", "d", " ">> \o words[2]
      [] OTHER -> CommaJoined(words, Len(words) - 1)
                    \o <<",", " ", "a", "n", "d", " ">> \o words[Len(words)]

\* C7: one word is returned as it is, two words as 'a and b', three or more
\* as the comma-joined words but the last, then ', and ', then the last
\* word: every word once and in input order.
C7_OxfordComma ==
    (ox_call.op = "return" /\ Len(ox_call.words) >= 1) =>
        ox_call.text = OxfordText(ox_call.words)

\* the three cases of the rule have returned
C7_Witness ==
    /\ ox_call.op = "return"
    /\ ox_call.words = << <<"a">>, <<"b">>, <<"c", "d">> >>
    /\ ox_call.text = <<"a", ",", " ", "b", ",", " ", "a", "n", "d", " ", "c", "d">>

C7_WitnessTwo ==
    /\ ox_call.op = "return"
    /\ ox_call.words = << <<"a">>, <<"b">> >>
    /\ ox_call.text = <<"a", " ", "a", "n", "d", " ", "b">>

(***************************************************************************)
(* Properties of compose_sentence                                          *)
(***************************************************************************)
ComposeReturned == cs_call.op = "return"

\* text contains part
Contains(text, part) ==
    \/ part = <<>>
    \/ \E i \in 1..(Len(text) - Len(part) + 1) :
          text[i] = part[1] /\ SubSeq(text, i, i + Len(part) - 1) = part

\* the arrangements of a list
Arrangements(words) ==
    { [i \in DOMAIN words |-> words[p[i]]] :
        p \in {q \in [DOMAIN words -> DOMAIN words] : \A i, j \in DOMAIN words : i # j => q[i] # q[j]} }

\* the arrangement of a list of names in lexicographic order
InOrder(words) ==
    CHOOSE l \in Arrangements(words) :
        \A i, j \in DOMAIN l : i < j => ~StrLess(l[j], l[i])

\* a list of names with ' (multiple)' after the members of ancestors
Marked(words, ancestors) ==
    [ i \in DOMAIN words |->
        IF words[i] \in ancestors
        THEN words[i] \o <<" ", "(", "m", "u", "l", "t", "i", "p", "l", "e", ")">>
        ELSE words[i] ]

FullPrefix == cs_call.prefix \o cs_call.additional_prefix \o <<" ">>

SpacedPostfix == IF cs_call.postfix = <<>> THEN <<>> ELSE <<" ">> \o cs_call.postfix

OnlyCell == cs_call.term_names \in { <<the_cell>>, <<the_Cell>> }

\* C8: without rename_cell the text is prefix + additional_prefix + ' ', the
\* Oxford comma join of the term names in lexicographic order with
\* ' (multiple)' after exactly the names in ancestors_with_multiple_children,
\* and ' ' + postfix when the postfix is not empty.
C8_PlainSentence ==
    (ComposeReturned /\ ~cs_call.rename_cell) =>
        cs_call.text =
            FullPrefix
            \o OxfordText(Marked(InOrder(cs_call.term_names),
                                 cs_call.ancestors_with_multiple_children))
            \o SpacedPostfix

\* three names given out of order, one of them an ancestor with multiple
\* children, and a postfix
C8_Witness ==
    /\ ComposeReturned
    /\ ~cs_call.rename_cell
    /\ cs_call.term_names = << <<"g", "u", "t">>, the_cell, <<"a", "x", "o", "n">> >>
    /\ cs_call.ancestors_with_multiple_children = { <<"g", "u", "t">> }
    /\ cs_call.postfix # <<>>
    /\ cs_call.prefix # <<>>
    /\ Contains(cs_call.text, <<"a", "x", "o", "n", ",", " ", "g", "u", "t", " ", "(", "m", "u", "l", "t", "i", "p", "l", "e", ")", ",", " ", "a", "n", "d", " ", "t", "h", "e", " ", "c", "e", "l", "l", " ", "i", "n", " ", "v", "i", "v", "o">>)

\* C9: with rename_cell and 'the cell' (or 'the Cell') the only term name, the
\* text has the word 'widely', has no 'the cell' (or 'the Cell') and has no
\* ', ' and no ' and '.
C9_OnlyCellRenamed ==
    (ComposeReturned /\ cs_call.rename_cell /\ OnlyCell) =>
        /\ Contains(cs_call.text, <<"w", "i", "d", "e", "l", "y">>)
        /\ ~Contains(cs_call.text, cs_call.term_names[1])
        /\ ~Contains(cs_call.text, <<",", " ">>)
        /\ ~Contains(cs_call.text, <<" ", "a", "n", "d", " ">>)

\* the only entry of the term list after the ' (multiple)' suffixes is
\* 'the cell' or 'the Cell'
OnlyCellRendered ==
    /\ OnlyCell
    /\ cs_call.term_names[1] \notin cs_call.ancestors_with_multiple_children

\* C10 as claimed, for the calls in which 'the cell' is rendered without a
\* suffix: with rename_cell and 'the cell' the only term, the text is the full
\* prefix without its last character, then 'widely' and the postfix.
C10_LastCharacterRemoved ==
    (ComposeReturned /\ cs_call.rename_cell /\ OnlyCellRendered) =>
        cs_call.text =
            SubSeq(FullPrefix, 1, Len(FullPrefix) - 1)
            \o <<"w", "i", "d", "e", "l", "y">> \o SpacedPostfix

\* the first n characters of a text
FirstChars(text, n) == [i \in 1..n |-> text[i]]

\* C10 as amended: with rename_cell and 'the cell' (or 'the Cell') the only
\* entry of the rendered term list, the text is the full prefix without its
\* last three characters (without all of them when it has at most three),
\* then 'widely' and the postfix.
C10_LastThreeCharactersRemoved ==
    (ComposeReturned /\ cs_call.rename_cell /\ OnlyCellRendered) =>
        cs_call.text =
            FirstChars(FullPrefix, IF Len(FullPrefix) > 3 THEN Len(FullPrefix) - 3 ELSE 0)
            \o <<"w", "i", "d", "e", "l", "y">> \o SpacedPostfix

\* 'is expressed in' + '' + ' ' loses 'in ' and the text is 'is expressed widely'
C10_Witness ==
    /\ ComposeReturned
    /\ cs_call.rename_cell
    /\ OnlyCellRendered
    /\ cs_call.prefix # <<>>
    /\ cs_call.additional_prefix = <<>>
    /\ cs_call.postfix = <<>>
    /\ cs_call.text = <<"i", "s", " ", "e", "x", "p", "r", "e", "s", "s", "e", "d", " ", "w", "i", "d", "e", "l", "y">>

\* a cell name is among the term names given to compose_sentence
CellGiven == the_cell \in Range(cs_call.term_names) \/ the_Cell \in Range(cs_call.term_names)

\* the text that the renaming branch of compose_sentence renders: 'widely'
\* for a single term, otherwise the list without its cell entries
RenamedText ==
    IF Len(cs_call.term_names) = 1
    THEN FirstChars(FullPrefix, IF Len(FullPrefix) > 3 THEN Len(FullPrefix) - 3 ELSE 0)
         \o <<"w", "i", "d", "e", "l", "y">> \o SpacedPostfix
    ELSE FullPrefix
         \o (IF cs_call.additional_prefix = <<>> THEN several_tissues_including ELSE <<>>)
         \o OxfordText(SelectSeq(Marked(InOrder(cs_call.term_names),
                                        cs_call.ancestors_with_multiple_children),
                                 LAMBDA term : term \notin {the_cell, the_Cell}))
         \o SpacedPostfix

\* C11: the cell-renaming rule is decided on the term names as given, before
\* the ' (multiple)' suffix: with rename_cell and 'the cell' (or 'the Cell')
\* among the given term names the renaming branch renders the text, also when
\* the cell name is a member of ancestors_with_multiple_children.
C11_RenameDecidedBeforeSuffix ==
    (ComposeReturned /\ cs_call.rename_cell /\ CellGiven) =>
        cs_call.text = RenamedText

\* the names given to compose_sentence that are not cell names
OtherNames == SelectSeq(cs_call.term_names, LAMBDA term : term \notin {the_cell, the_Cell})

\* C12: with rename_cell and 'the cell' (or 'the Cell') given together with
\* at least one other term name, the rendered list has no cell entry and has
\* all the other names, and 'several tissues including ' follows the full
\* prefix if and only if additional_prefix is empty.
C12_CellRemovedAmongOthers ==
    (ComposeReturned /\ cs_call.rename_cell /\ CellGiven /\ OtherNames # <<>>) =>
        cs_call.text =
            FullPrefix
            \o (IF cs_call.additional_prefix = <<>> THEN several_tissues_including ELSE <<>>)
            \o OxfordText(Marked(InOrder(OtherNames), cs_call.ancestors_with_multiple_children))
            \o SpacedPostfix

(***************************************************************************)
(* _get_single_sentence (sentence_generation_functions.py)                 *)
(***************************************************************************)
MaxNodes == 2

\* an optional argument: Absent is Python's None, Given(v) the value v
Absent == <<>>
Given(v) == <<v>>

\* the outcomes of a call: an exception, None, or a value
Raise(error) == [kind |-> "raise", error |-> error]
ReturnNone == [kind |-> "None"]

\* the term ids and the labels the ontology has for them; the last id has no label
cell_id == <<"W", "B", "b", "t", "c">>
axon_id == <<"W", "B", "b", "t", "a">>
bare_id == <<"W", "B", "b", "t", "u">>
NodeIds == { cell_id, axon_id, bare_id }
OntologyLabels == (cell_id :> Given(the_cell)) @@ (axon_id :> Given(<<"a", "x", "o", "n">>)) @@ (bare_id :> Absent)

\* ontology.label(node_id, id_if_null=True)
label(ontology, node_id) ==
    IF ontology[node_id] = Absent THEN node_id ELSE ontology[node_id][1]

\* the (prefix, postfix) templates by (aspect, evidence_group, qualifier)
StandardTemplates ==
    (<<"F", "EXPERIMENTAL", "">> :> << <<"e", "x", "h", "i", "b", "i", "t", "s">>, <<>> >>)
    @@ (<<"C", "EXPERIMENTAL", "">> :> << <<"l", "o", "c", "a", "l", "i", "z", "e", "s", " ", "t", "o">>, <<"i", "n", " ", "v", "i", "v", "o">> >>)
    @@ (<<"C", "EXPERIMENTAL", "colocalizes_with">> :> << <<"c", "o", "l", "o", "c", "a", "l", "i", "z", "e", "s", " ", "w", "i", "t", "h">>, <<>> >>)
PrepostfixMaps == { EmptyMap, StandardTemplates }
Aspects == { "F", "C" }
Qualifiers == { "", "colocalizes_with" }
several == <<"s", "e", "v", "e", "r", "a", "l">>
entities == <<"e", "n", "t", "i", "t", "i", "e", "s">>
AspectWords == { Absent, Given(EmptyMap), Given("F" :> <<"f", "u", "n", "c", "t", "i", "o", "n", "s">>) }
Labels == { the_cell, <<"a", "x", "o", "n">> }

\* the template is taken with a default instead of by subscript
prepostfix_lookup_with_default(prepostfix_sentences_map, key) ==
    IF key \in DOMAIN prepostfix_sentences_map
    THEN [kind |-> "value", value |-> prepostfix_sentences_map[key]]
    ELSE [kind |-> "value", value |-> << <<>>, <<>> >>]

\* prepostfix_sentences_map[(aspect, evidence_group, qualifier)]
prepostfix_lookup(prepostfix_sentences_map, key) ==
    IF key \in DOMAIN prepostfix_sentences_map
    THEN [kind |-> "value", value |-> prepostfix_sentences_map[key]]
    ELSE Raise("KeyError")

\* the additional prefix of a sentence
additional_prefix_of(a) ==
    LET words == a.truncate_others_aspect_words[1]
        others_word == IF a.aspect \in DOMAIN words THEN words[a.aspect] ELSE entities
        others == IF a.add_others
                  THEN <<" ">> \o a.truncate_others_generic_word \o <<" ">> \o others_word
                       \o <<",", " ", "i", "n", "c", "l", "u", "d", "i", "n", "g">>
                  ELSE <<>>
    IN  IF a.aspect = "C" THEN others \o <<" ", "t", "h", "e">> ELSE others

\* the text is composed without the additional prefix when the terms were merged
sentence_text_by_terms_merged(a, prefix, additional_prefix, postfix, term_labels) ==
    compose_sentence(prefix, IF a.terms_merged THEN <<>> ELSE additional_prefix,
                     term_labels, postfix,
                     a.ancestors_with_multiple_children[1], a.rename_cell)

\* the text argument of the Sentence
sentence_text(a, prefix, additional_prefix, postfix, term_labels) ==
    compose_sentence(prefix, additional_prefix, term_labels, postfix,
                     a.ancestors_with_multiple_children[1], a.rename_cell)

\* the branch of _get_single_sentence for a list of term ids that is not empty
BuildSentence(a) ==
    LET template == prepostfix_lookup(a.prepostfix_sentences_map,
                                      <<a.aspect, a.evidence_group, a.qualifier>>)
        prefix == template.value[1]
        postfix == template.value[2]
        additional_prefix == additional_prefix_of(a)
        term_labels == [ i \in DOMAIN a.node_ids |-> label(a.ontology, a.node_ids[i]) ]
    IN  IF template.kind = "raise" THEN template
        ELSE IF a.truncate_others_aspect_words = Absent THEN Raise("TypeError")
        ELSE IF a.ancestors_with_multiple_children = Absent /\ term_labels # <<>>
             THEN Raise("TypeError")
        ELSE [ kind |-> "Sentence",
               prefix |-> prefix,
               terms_ids |-> a.node_ids,
               postfix |-> postfix,
               text |-> sentence_text(a, prefix, additional_prefix, postfix, term_labels),
               aspect |-> a.aspect,
               evidence_group |-> a.evidence_group,
               terms_merged |-> a.terms_merged,
               additional_prefix |-> additional_prefix,
               qualifier |-> a.qualifier,
               ancestors_covering_multiple_terms |-> a.ancestors_with_multiple_children ]

\* the list of term ids is not tested
_get_single_sentence_always_builds(a) == BuildSentence(a)

\* _get_single_sentence, a being its arguments
_get_single_sentence(a) ==
    IF Len(a.node_ids) > 0 THEN BuildSentence(a) ELSE ReturnNone

\* the arguments of a call
SentenceArguments(ids, maps, qualifiers, merged, others, words, ancestors) ==
    [ op : {"call"},
      node_ids : ids,
      ontology : {OntologyLabels},
      aspect : Aspects,
      evidence_group : {"EXPERIMENTAL"},
      qualifier : qualifiers,
      prepostfix_sentences_map : maps,
      terms_merged : merged,
      add_others : others,
      truncate_others_generic_word : {several},
      truncate_others_aspect_words : words,
      ancestors_with_multiple_children : ancestors,
      rename_cell : BOOLEAN,
      result : {ReturnNone} ]

\* a call with its arguments drawn, before the function runs
InitSingleSentence ==
    /\ FetcherIdle
    /\ SelectorsIdle
    /\ cs_call = NoCall
    /\ ox_call = NoCall
    /\ ss_other = NoCall
    /\ oh_call = NoCall
    /\ on_call = NoCall
    /\ ss_call \in SentenceArguments(SeqUpTo(NodeIds, MaxNodes), PrepostfixMaps, Qualifiers,
                                     BOOLEAN, BOOLEAN, AspectWords,
                                     {Absent} \cup {Given(s) : s \in SUBSET Labels})

_get_single_sentence_call ==
    /\ ss_call.op = "call"
    /\ ss_call' = [ ss_call EXCEPT !.op = "return", !.result = _get_single_sentence(ss_call) ]
    /\ UNCHANGED <<obo_file, go_ontology, go_data, fetcher_pc, go_call, cs_call, ox_call,
                   ss_other, oh_call, on_call, selector_calls>>

NextSingleSentence == _get_single_sentence_call

SpecSingleSentence == InitSingleSentence /\ [][NextSingleSentence]_vars

\* two calls with their arguments drawn, before the function runs
InitSentencePair ==
    /\ FetcherIdle
    /\ SelectorsIdle
    /\ cs_call = NoCall
    /\ ox_call = NoCall
    /\ oh_call = NoCall
    /\ on_call = NoCall
    /\ ss_call \in SentenceArguments(SeqUpTo({cell_id, axon_id}, MaxNodes), {StandardTemplates},
                                     {""}, BOOLEAN, {FALSE}, {Given(EmptyMap)},
                                     {Given({}), Given({the_cell})})
    /\ ss_other \in SentenceArguments(SeqUpTo({cell_id, axon_id}, MaxNodes), {StandardTemplates},
                                      {""}, BOOLEAN, {FALSE}, {Given(EmptyMap)},
                                      {Given({}), Given({the_cell})})

\* the second call, made after the first has returned
_get_single_sentence_other ==
    /\ ss_call.op = "return"
    /\ ss_other.op = "call"
    /\ ss_other' = [ ss_other EXCEPT !.op = "return", !.result = _get_single_sentence(ss_other) ]
    /\ UNCHANGED <<obo_file, go_ontology, go_data, fetcher_pc, go_call, cs_call, ox_call,
                   ss_call, oh_call, on_call, selector_calls>>

NextSentencePair == _get_single_sentence_call \/ _get_single_sentence_other

SpecSentencePair == InitSentencePair /\ [][NextSentencePair]_vars

(***************************************************************************)
(* Properties of _get_single_sentence                                      *)
(***************************************************************************)
SentenceReturned == ss_call.op = "return"

TemplateKey == <<ss_call.aspect, ss_call.evidence_group, ss_call.qualifier>>

\* C13: for an empty list of term ids _get_single_sentence returns None and
\* raises nothing, whatever the other arguments are, a template map without
\* the (aspect, evidence_group, qualifier) key and an absent aspect-noun map
\* included.
C13_NoneForNoTerms ==
    (SentenceReturned /\ ss_call.node_ids = <<>>) => ss_call.result = ReturnNone

\* no term ids, an empty template map, no aspect-noun map and no ancestors set
C13_Witness ==
    /\ SentenceReturned
    /\ ss_call.node_ids = <<>>
    /\ ss_call.prepostfix_sentences_map = EmptyMap
    /\ ss_call.truncate_others_aspect_words = Absent
    /\ ss_call.ancestors_with_multiple_children = Absent
    /\ ss_call.add_others
    /\ ss_call.result = ReturnNone

\* C14: for a list of term ids that is not empty and a template map without
\* the (aspect, evidence_group, qualifier) key, _get_single_sentence raises
\* KeyError and returns no Sentence.
C14_MissingTemplateRaises ==
    (SentenceReturned /\ ss_call.node_ids # <<>>
        /\ TemplateKey \notin DOMAIN ss_call.prepostfix_sentences_map) =>
        ss_call.result = Raise("KeyError")

\* the map has other keys but not this qualifier's; every other argument is
\* one with which a Sentence is built when the key is there
C14_Witness ==
    /\ SentenceReturned
    /\ ss_call.node_ids = <<axon_id, cell_id>>
    /\ ss_call.prepostfix_sentences_map = StandardTemplates
    /\ TemplateKey = <<"F", "EXPERIMENTAL", "colocalizes_with">>
    /\ ss_call.truncate_others_aspect_words # Absent
    /\ ss_call.ancestors_with_multiple_children # Absent
    /\ ss_call.result = Raise("KeyError")

\* both calls have returned a Sentence
TwoSentences ==
    /\ ss_call.op = "return"
    /\ ss_other.op = "return"
    /\ ss_call.result.kind = "Sentence"
    /\ ss_other.result.kind = "Sentence"

\* the two Sentences are equal in every field but the text, and were built
\* with the same ontology
SameFields ==
    /\ ss_call.result.prefix = ss_other.result.prefix
    /\ ss_call.result.additional_prefix = ss_other.result.additional_prefix
    /\ ss_call.result.terms_ids = ss_other.result.terms_ids
    /\ ss_call.result.postfix = ss_other.result.postfix
    /\ ss_call.result.aspect = ss_other.result.aspect
    /\ ss_call.result.ancestors_covering_multiple_terms
         = ss_other.result.ancestors_covering_multiple_terms
    /\ ss_call.ontology = ss_other.ontology

\* C15 as claimed: two calls whose Sentences are equal in prefix,
\* additional_prefix, term ids, postfix, aspect and
\* ancestors_covering_multiple_terms have equal text, whatever their other
\* arguments are.
C15_TextDeterminedByFields ==
    (TwoSentences /\ SameFields) => ss_call.result.text = ss_other.result.text

\* C15 as amended: two calls with the same rename_cell whose Sentences are
\* equal in prefix, additional_prefix, term ids, postfix, aspect and
\* ancestors_covering_multiple_terms have equal text.
C15_TextDeterminedByFieldsAndRenameCell ==
    (TwoSentences /\ SameFields /\ ss_call.rename_cell = ss_other.rename_cell) =>
        ss_call.result.text = ss_other.result.text

\* two Sentences for 'the cell' and 'axon' with rename_cell that differ in
\* terms_merged only
C15_Witness ==
    /\ TwoSentences
    /\ SameFields
    /\ ss_call.rename_cell
    /\ ss_other.rename_cell
    /\ ss_call.terms_merged # ss_other.terms_merged
    /\ ss_call.node_ids = <<cell_id, axon_id>>
    /\ ss_call.aspect = "C"
    /\ ss_call.result.text = ss_other.result.text
    /\ Contains(ss_call.result.text, <<"a", "x", "o", "n">>)
    /\ ~Contains(ss_call.result.text, the_cell)

(***************************************************************************)
(* generate_ortholog_sentence_wormbase_human                               *)
(* (sentence_generation_functions.py)                                      *)
(***************************************************************************)
MaxOrthologs == 8

\* the human genes of a call: their number in each of four named families
\* (at most two in the families after the first), in a family with an empty
\* symbol, and without family information (the first of these has no
\* properties, the second has properties of two fields, symbol and name, the
\* third has an empty property list)
FamilyLetters == <<"A", "B", "C", "D">>
Compositions ==
    { c \in [ family : { f \in [1..Len(FamilyLetters) -> 0..MaxOrthologs] :
                                 \A i \in 2..Len(FamilyLetters) : f[i] <= 2 },
              unnamed : 0..2,
              without : 0..3 ] :
        c.family[1] + c.family[2] + c.family[3] + c.family[4] + c.unnamed + c.without
            <= MaxOrthologs }

\* the k-th gene of a group: its symbol, its name and its id
symbol_of(letter, k) == <<letter, UpperCase[k]>>
name_of(letter, k) == <<LowerCase[IndexOf(UpperCase, letter)], LowerCase[k]>>
gene_id_of(letter, k) == <<"H", "G", "N", "C">> \o symbol_of(letter, k)

\* the orthologs of a group: a list of [gene_id, gene_symbol]
group_orthologs(letter, size) ==
    [ k \in 1..size |-> <<gene_id_of(letter, k), symbol_of(letter, k)>> ]

\* the properties of the genes of a family: symbol, name, family symbol, family name
family_props(letter, size, family_symbol, family_name) ==
    [ id \in { gene_id_of(letter, k) : k \in 1..size } |->
        LET k == CHOOSE k \in 1..size : gene_id_of(letter, k) = id
        IN  <<symbol_of(letter, k), name_of(letter, k), family_symbol, family_name>> ]

\* the orthologs argument for a composition
orthologs_of(c) ==
    group_orthologs("W", c.without)
    \o group_orthologs("A", c.family[1])
    \o group_orthologs("B", c.family[2])
    \o group_orthologs("U", c.unnamed)
    \o group_orthologs("C", c.family[3])
    \o group_orthologs("D", c.family[4])

\* the human_genes_props argument for a composition
human_genes_props_of(c) ==
    family_props("A", c.family[1], <<"F", "A">>, <<"f", "a">>)
    @@ family_props("B", c.family[2], <<"F", "B">>, <<"f", "b">>)
    @@ family_props("C", c.family[3], <<"F", "C">>, <<"f", "c">>)
    @@ family_props("D", c.family[4], <<"F", "D">>, <<"f", "d">>)
    @@ family_props("U", c.unnamed, <<>>, <<>>)
    @@ [ id \in { gene_id_of("W", k) : k \in 2..c.without } |->
           IF id = gene_id_of("W", 2) THEN <<symbol_of("W", 2), name_of("W", 2)>> ELSE <<>> ]

\* human_p[0] + " (" + human_p[1] + ")"
symbol_and_name(human_p) == human_p[1] \o <<" ", "(">> \o human_p[2] \o <<")">>

\* gene.split(" ")[0]
RECURSIVE first_word(_)
first_word(gene) ==
    IF gene = <<>> \/ Head(gene) = " " THEN <<>> ELSE <<Head(gene)>> \o first_word(Tail(gene))

\* the gene has complete family information
has_family(ortholog, human_genes_props) ==
    /\ ortholog[1] \in DOMAIN human_genes_props
    /\ human_genes_props[ortholog[1]] # <<>>
    /\ Len(human_genes_props[ortholog[1]]) = 4

\* a list without the repetitions of its elements, in order of first appearance
RECURSIVE first_appearances(_)
first_appearances(list) ==
    IF list = <<>> THEN <<>>
    ELSE LET front == first_appearances(SubSeq(list, 1, Len(list) - 1))
             last == list[Len(list)]
         IN  IF last \in Range(front) THEN front ELSE Append(front, last)

\* the lists that list(S)[0:n] can be for a Python set S
list_of_set(S, n) ==
    LET m == IF Cardinality(S) < n THEN Cardinality(S) ELSE n
    IN  { l \in [1..m -> S] : \A i, j \in 1..m : i # j => l[i] # l[j] }

\* the lists are cut to four elements
truncated_list_of_set_to_four(S) == list_of_set(S, 4)

\* list(S) cut to its first three elements
truncated_list_of_set(S) == list_of_set(S, 3)

\* a list cut to its first three elements
first_three(list) == IF Len(list) > 3 THEN SubSeq(list, 1, 3) ELSE list

\* a family is dissolved only when it is the only one left after the families
\* of one gene and the families without symbol have been reclassified
dissolve_families_after_reclassifying(keys, members) ==
    LET kept == SelectSeq(keys, LAMBDA k : Len(members[k]) > 1 /\ k # <<>>)
    IN  IF Len(kept) = 1
        THEN [ keys |-> <<>>, without_family |-> UNION { Range(members[k]) : k \in Range(keys) } ]
        ELSE [ keys |-> kept,
               without_family |->
                   UNION { Range(members[k]) :
                             k \in { f \in Range(keys) : f = <<>> \/ Len(members[f]) = 1 } } ]

\* a single family is kept as a family
dissolve_families_never(keys, members) ==
    [ keys |-> SelectSeq(keys, LAMBDA k : Len(members[k]) > 1 /\ k # <<>>),
      without_family |->
          UNION { Range(members[k]) :
                    k \in { f \in Range(keys) : f = <<>> \/ Len(members[f]) = 1 } } ]

\* the families that stay families, in insertion order, and the properties of
\* the genes that move to the genes without family
dissolve_families(keys, members) ==
    IF Len(keys) = 1
    THEN [ keys |-> <<>>, without_family |-> Range(members[keys[1]]) ]
    ELSE [ keys |-> SelectSeq(keys, LAMBDA k : Len(members[k]) > 1 /\ k # <<>>),
           without_family |->
               UNION { Range(members[k]) :
                         k \in { f \in Range(keys) : f = <<>> \/ Len(members[f]) = 1 } } ]

\* generate_ortholog_sentence_wormbase_human: the results the call can have,
\* one for each iteration order of its sets
generate_ortholog_sentence_wormbase_human(orthologs, human_genes_props) ==
    IF Len(orthologs) > 3
    THEN LET with_family == SelectSeq(orthologs, LAMBDA o : has_family(o, human_genes_props))
             props == [ i \in DOMAIN with_family |-> human_genes_props[with_family[i][1]] ]
             keys == first_appearances([ i \in DOMAIN props |-> props[i][3] ])
             gene_families == [ k \in Range(keys) |-> SelectSeq(props, LAMBDA p : p[3] = k) ]
             families == dissolve_families(keys, gene_families)
             without_family ==
                 { o[2] : o \in { x \in Range(orthologs) : ~has_family(x, human_genes_props) } }
                 \cup { symbol_and_name(p) : p \in families.without_family }
             gene_family_names ==
                 first_three([ i \in DOMAIN families.keys |->
                                 gene_families[families.keys[i]][1][3] \o <<" ", "(">>
                                 \o gene_families[families.keys[i]][1][4] \o <<")">> ])
             in_families ==
                 UNION { { p[1] : p \in Range(gene_families[k]) } : k \in Range(families.keys) }
             family_word == IF Len(gene_family_names) > 1 THEN <<"f", "a", "m", "i", "l", "i", "e", "s">> ELSE <<"f", "a", "m", "i", "l", "y">>
         IN  { LET sentences_arr ==
                       (IF Len(gene_symbols_wo_family) > 0
                        THEN << <<"h", "u", "m", "a", "n", " ">> \o concatenate_words_with_oxford_comma(gene_symbols_wo_family) >>
                        ELSE <<>>)
                       \o (IF Len(gene_family_names) > 0
                           THEN << <<"m", "e", "m", "b", "e", "r", "s", " ", "o", "f", " ", "t", "h", "e", " ", "h", "u", "m", "a", "n", " ">>
                                   \o concatenate_words_with_oxford_comma(gene_family_names)
                                   \o <<" ", "g", "e", "n", "e", " ">> \o family_word \o <<" ", "i", "n", "c", "l", "u", "d", "i", "n", "g", " ">>
                                   \o concatenate_words_with_oxford_comma(genes_in_families) >>
                           ELSE <<>>)
                   genes == genes_in_families \o gene_symbols_wo_family
               IN  [ genes |-> [ i \in DOMAIN genes |-> first_word(genes[i]) ],
                     orth_sentence |-> <<"i", "s", " ", "a", "n", " ", "o", "r", "t", "h", "o", "l", "o", "g", " ", "o", "f", " ">> \o join(and_separator, sentences_arr),
                     gene_family_names |-> gene_family_names,
                     genes_in_families |-> genes_in_families,
                     gene_symbols_wo_family |-> gene_symbols_wo_family ] :
               genes_in_families \in truncated_list_of_set(in_families),
               gene_symbols_wo_family \in truncated_list_of_set(without_family) }
    ELSE LET symbol_name_arr ==
                 sorted([ i \in DOMAIN orthologs |->
                            IF orthologs[i][1] \in DOMAIN human_genes_props
                               /\ human_genes_props[orthologs[i][1]] # <<>>
                            THEN symbol_and_name(human_genes_props[orthologs[i][1]])
                            ELSE orthologs[i][2] ])
         IN  { [ genes |-> [ i \in DOMAIN symbol_name_arr |-> first_word(symbol_name_arr[i]) ],
                 orth_sentence |-> <<"i", "s", " ", "a", "n", " ", "o", "r", "t", "h", "o", "l", "o", "g", " ", "o", "f", " ", "h", "u", "m", "a", "n", " ">>
                                   \o concatenate_words_with_oxford_comma(symbol_name_arr),
                 gene_family_names |-> <<>>,
                 genes_in_families |-> <<>>,
                 gene_symbols_wo_family |-> <<>> ] }

\* a call with its arguments drawn, before the function runs
InitOrthologsHuman ==
    /\ FetcherIdle
    /\ SelectorsIdle
    /\ cs_call = NoCall
    /\ ox_call = NoCall
    /\ ss_call = NoCall
    /\ ss_other = NoCall
    /\ on_call = NoCall
    /\ \E c \in Compositions :
          oh_call = [ op |-> "call",
                      orthologs |-> orthologs_of(c),
                      human_genes_props |-> human_genes_props_of(c),
                      result |-> ReturnNone ]

generate_ortholog_sentence_wormbase_human_call ==
    /\ oh_call.op = "call"
    /\ \E result \in generate_ortholog_sentence_wormbase_human(oh_call.orthologs,
                                                               oh_call.human_genes_props) :
          oh_call' = [ oh_call EXCEPT !.op = "return", !.result = result ]
    /\ UNCHANGED <<obo_file, go_ontology, go_data, fetcher_pc, go_call, cs_call, ox_call,
                   ss_call, ss_other, on_call, selector_calls>>

NextOrthologsHuman == generate_ortholog_sentence_wormbase_human_call

SpecOrthologsHuman == InitOrthologsHuman /\ [][NextOrthologsHuman]_vars

(***************************************************************************)
(* Properties of generate_ortholog_sentence_wormbase_human                 *)
(***************************************************************************)
\* the call has returned for more than three orthologs
ManyHumanOrthologs == oh_call.op = "return" /\ Len(oh_call.orthologs) > 3

\* the properties of the orthologs that have complete family information
CompleteProps ==
    { oh_call.human_genes_props[o[1]] :
        o \in { x \in Range(oh_call.orthologs) :
                  /\ x[1] \in DOMAIN oh_call.human_genes_props
                  /\ Len(oh_call.human_genes_props[x[1]]) = 4 } }

\* the family symbols found among the orthologs
FamiliesFound == { p[3] : p \in CompleteProps }

\* the families with a symbol and more than one gene among the orthologs
LastingFamilies ==
    { f \in FamiliesFound : f # <<>> /\ Cardinality({ p \in CompleteProps : p[3] = f }) > 1 }

\* the lists of three different members of S, or of all of them when S has fewer
UpToThreeOf(S) ==
    LET k == IF Cardinality(S) > 3 THEN 3 ELSE Cardinality(S)
    IN  { l \in [1..k -> S] : Cardinality(Range(l)) = k }

\* C16: when more than 3 orthologs all have complete family information for
\* one and the same family, the sentence has no 'members of the human ... gene
\* family' clause and is 'is an ortholog of human ' followed by three of the
\* genes (all of them when they are fewer) as 'symbol (name)'.
C16_SingleFamilyDissolved ==
    (ManyHumanOrthologs
        /\ Cardinality(CompleteProps) = Len(oh_call.orthologs)
        /\ Cardinality(FamiliesFound) = 1) =>
        /\ ~Contains(oh_call.result.orth_sentence, <<"m", "e", "m", "b", "e", "r", "s", " ", "o", "f", " ", "t", "h", "e", " ", "h", "u", "m", "a", "n">>)
        /\ ~Contains(oh_call.result.orth_sentence, <<"g", "e", "n", "e", " ", "f", "a", "m", "i", "l", "y">>)
        /\ \E l \in UpToThreeOf({ p[1] \o <<" ", "(">> \o p[2] \o <<")">> : p \in CompleteProps }) :
              oh_call.result.orth_sentence = <<"i", "s", " ", "a", "n", " ", "o", "r", "t", "h", "o", "l", "o", "g", " ", "o", "f", " ", "h", "u", "m", "a", "n", " ">> \o OxfordText(l)

\* five genes of the family FA, three of them in the sentence
C16_Witness ==
    /\ ManyHumanOrthologs
    /\ Len(oh_call.orthologs) = 5
    /\ Cardinality(CompleteProps) = 5
    /\ FamiliesFound = { <<"F", "A">> }
    /\ oh_call.result.orth_sentence = <<"i", "s", " ", "a", "n", " ", "o", "r", "t", "h", "o", "l", "o", "g", " ", "o", "f", " ", "h", "u", "m", "a", "n", " ", "A", "C", " ", "(", "a", "c", ")", ",", " ", "A", "E", " ", "(", "a", "e", ")", ",", " ", "a", "n", "d", " ", "A", "A", " ", "(", "a", "a", ")">>

\* C17 as claimed: with more than 3 orthologs the sentence never has a family
\* clause that names exactly one family.
C17_NoClauseForOneFamily ==
    ManyHumanOrthologs => ~Contains(oh_call.result.orth_sentence, <<" ", "g", "e", "n", "e", " ", "f", "a", "m", "i", "l", "y", " ", "i", "n", "c", "l", "u", "d", "i", "n", "g", " ">>)

\* C17 as amended: with more than 3 orthologs the sentence has a family
\* clause naming exactly one family if and only if at least two families are
\* found among the orthologs and exactly one of them has a symbol and more
\* than one gene; a family that is the only one found is dissolved.
C17_OneFamilyKeptAmongSeveral ==
    ManyHumanOrthologs =>
        /\ Contains(oh_call.result.orth_sentence, <<" ", "g", "e", "n", "e", " ", "f", "a", "m", "i", "l", "y", " ", "i", "n", "c", "l", "u", "d", "i", "n", "g", " ">>)
             <=> (Cardinality(FamiliesFound) > 1 /\ Cardinality(LastingFamilies) = 1)
        /\ Cardinality(FamiliesFound) = 1
             => ~Contains(oh_call.result.orth_sentence, <<"m", "e", "m", "b", "e", "r", "s", " ", "o", "f", " ", "t", "h", "e", " ", "h", "u", "m", "a", "n">>)

\* two genes of FA, one of FB and one without properties: FB is reclassified
\* and FA stays a family
C17_Witness ==
    /\ ManyHumanOrthologs
    /\ Len(oh_call.orthologs) = 4
    /\ FamiliesFound = { <<"F", "A">>, <<"F", "B">> }
    /\ LastingFamilies = { <<"F", "A">> }
    /\ Contains(oh_call.result.orth_sentence,
                <<" ", "a", "n", "d", " ", "m", "e", "m", "b", "e", "r", "s", " ", "o", "f", " ", "t", "h", "e", " ", "h", "u", "m", "a", "n", " ", "F", "A", " ", "(", "f", "a", ")", " ", "g", "e", "n", "e", " ", "f", "a", "m", "i", "l", "y", " ", "i", "n", "c", "l", "u", "d", "i", "n", "g", " ">>)
    /\ Contains(oh_call.result.orth_sentence, <<"B", "A", " ", "(", "b", "a", ")">>)
    /\ Contains(oh_call.result.orth_sentence, <<"W", "A">>)

\* the family names as the sentence shows them
FamilyNamesShown ==
    { name \in { p[3] \o <<" ", "(">> \o p[4] \o <<")">> : p \in CompleteProps } :
        Contains(oh_call.result.orth_sentence, name) }

\* the clauses of the sentence for the lists the call has built
ClausesOf(result) ==
    (IF result.gene_symbols_wo_family # <<>>
     THEN << <<"h", "u", "m", "a", "n", " ">> \o OxfordText(result.gene_symbols_wo_family) >>
     ELSE <<>>)
    \o (IF result.gene_family_names # <<>>
        THEN << <<"m", "e", "m", "b", "e", "r", "s", " ", "o", "f", " ", "t", "h", "e", " ", "h", "u", "m", "a", "n", " ">> \o OxfordText(result.gene_family_names) \o <<" ", "g", "e", "n", "e", " ">>
                \o (IF Len(result.gene_family_names) > 1 THEN <<"f", "a", "m", "i", "l", "i", "e", "s">> ELSE <<"f", "a", "m", "i", "l", "y">>)
                \o <<" ", "i", "n", "c", "l", "u", "d", "i", "n", "g", " ">> \o OxfordText(result.genes_in_families) >>
        ELSE <<>>)

\* C18: with more than 3 orthologs the sentence names at most 3 families and
\* at most 3 genes without family, each list being cut on its own, and has at
\* least one clause after 'is an ortholog of '.
C18_AtMostThreeOfEach ==
    ManyHumanOrthologs =>
        LET clauses == ClausesOf(oh_call.result)
        IN  /\ Len(oh_call.result.gene_family_names) <= 3
            /\ Len(oh_call.result.gene_symbols_wo_family) <= 3
            /\ Len(oh_call.result.genes_in_families) <= 3
            /\ Cardinality(FamilyNamesShown) <= 3
            /\ clauses # <<>>
            /\ oh_call.result.orth_sentence =
                   <<"i", "s", " ", "a", "n", " ", "o", "r", "t", "h", "o", "l", "o", "g", " ", "o", "f", " ">>
                   \o (IF Len(clauses) = 2
                       THEN clauses[1] \o <<" ", "a", "n", "d", " ">> \o clauses[2]
                       ELSE clauses[1])

\* four genes without family cut to three next to two families: five names
\* in the sentence
C18_Witness ==
    /\ ManyHumanOrthologs
    /\ Len(oh_call.orthologs) = 8
    /\ Cardinality(LastingFamilies) = 2
    /\ Cardinality(CompleteProps) = 5
    /\ Len(oh_call.result.gene_symbols_wo_family) = 3
    /\ Len(oh_call.result.gene_family_names) = 2
    /\ Contains(oh_call.result.orth_sentence, <<" ", "g", "e", "n", "e", " ", "f", "a", "m", "i", "l", "i", "e", "s", " ", "i", "n", "c", "l", "u", "d", "i", "n", "g", " ">>)

\* four families of two genes each, three of them named
C18_WitnessFamilies ==
    /\ ManyHumanOrthologs
    /\ Cardinality(LastingFamilies) = 4
    /\ Cardinality(FamilyNamesShown) = 3
    /\ Len(oh_call.result.genes_in_families) = 3
    /\ oh_call.result.gene_symbols_wo_family = <<>>
    /\ Contains(oh_call.result.orth_sentence,
                <<"i", "s", " ", "a", "n", " ", "o", "r", "t", "h", "o", "l", "o", "g", " ", "o", "f", " ", "m", "e", "m", "b", "e", "r", "s", " ", "o", "f", " ", "t", "h", "e", " ", "h", "u", "m", "a", "n", " ", "F", "A", " ", "(", "f", "a", ")", ",", " ", "F", "B", " ", "(", "f", "b", ")", ",", " ", "a", "n", "d", " ", "F", "C", " ", "(", "f", "c", ")", " ", "g", "e", "n", "e", " ", "f", "a", "m", "i", "l", "i", "e", "s", " ", "i", "n", "c", "l", "u", "d", "i", "n", "g", " ">>)

(***************************************************************************)
(* generate_ortholog_sentence_wormbase_non_c_elegans                       *)
(* (sentence_generation_functions.py)                                      *)
(***************************************************************************)
MaxSisterOrthologs == 5

\* the orthologs: lists of [gene_id, gene_symbol], not in alphabetical order
SisterOrthologs ==
    << <<"WBGene00000003", <<"Q", "C">>>>, <<"WBGene00000001", <<"Q", "A">>>>,
       <<"WBGene00000005", <<"Q", "E">>>>, <<"WBGene00000002", <<"Q", "B">>>>,
       <<"WBGene00000004", <<"Q", "D">>>>, <<"WBGene00000006", <<"Q", "F">>>>,
       <<"WBGene00000008", <<"Q", "H">>>>, <<"WBGene00000007", <<"Q", "G">>>> >>
SpeciesNames == { <<"C", "a", "e", "n", "o", "r", "h", "a", "b", "d", "i", "t", "i", "s", " ", "b", "r", "i", "g", "g", "s", "a", "e">>, <<"C", ".", " ", "r", "e", "m", "a", "n", "e", "i">> }
Popularities == 1..2
\* what get_gene_class returns: None or the label of a class
GeneClasses == { Absent, Given(<<"K", "A">>), Given(<<"K", "B">>) }

\* the answers of the gene class service to a request: the request fails, or
\* it gives data with the label of a class or without one
GeneClassAnswers ==
    { Raise("URLError") } \cup { [kind |-> "data", label |-> class] : class \in GeneClasses }

\* get_gene_class for an answer of the service: a failure is caught and is None
get_gene_class(answer) ==
    IF answer.kind = "raise" THEN Absent ELSE answer.label

\* text.split(" ")
RECURSIVE split(_)
split(text) ==
    IF \A i \in DOMAIN text : text[i] # " " THEN <<text>>
    ELSE LET i == CHOOSE k \in DOMAIN text : text[k] = " " /\ \A j \in 1..(k - 1) : text[j] # " "
         IN  <<SubSeq(text, 1, i - 1)>> \o split(SubSeq(text, i + 1, Len(text)))

\* the species name with its first word cut to an initial when it has more
\* than two characters
abbreviate(orthologs_sp_fullname) ==
    LET fullname_arr == split(orthologs_sp_fullname)
    IN  IF Len(fullname_arr[1]) > 2
        THEN join(<<" ">>, << <<fullname_arr[1][1], ".">> >> \o Tail(fullname_arr))
        ELSE orthologs_sp_fullname

\* the key (x[1], x[0][1]) of x is greater than that of y
popularity_and_symbol_greater(x, y) ==
    x[2] > y[2] \/ (x[2] = y[2] /\ StrLess(y[1][2], x[1][2]))

\* the ortholog x goes after the orthologs in front that are not below it
RECURSIVE insert_by_popularity_and_symbol(_, _)
insert_by_popularity_and_symbol(x, list) ==
    IF list = <<>> THEN <<x>>
    ELSE IF popularity_and_symbol_greater(x, Head(list))
         THEN <<x>> \o list
         ELSE <<Head(list)>> \o insert_by_popularity_and_symbol(x, Tail(list))

\* sorted(list, key=lambda x: (x[1], x[0][1]), reverse=True)
RECURSIVE sorted_by_popularity_and_symbol(_)
sorted_by_popularity_and_symbol(list) ==
    IF list = <<>> THEN <<>>
    ELSE insert_by_popularity_and_symbol(list[Len(list)],
            sorted_by_popularity_and_symbol(SubSeq(list, 1, Len(list) - 1)))

RECURSIVE insert_by_popularity(_, _)
insert_by_popularity(x, list) ==
    IF list = <<>> THEN <<x>>
    ELSE IF x[1][2] > Head(list)[1][2]
         THEN <<x>> \o list
         ELSE <<Head(list)>> \o insert_by_popularity(x, Tail(list))

\* the items are left in the order in which they were collected
sort_by_popularity_left_out(sorted_items) == sorted_items

\* sorted_items.sort(key=lambda x: x[0][1], reverse=True): the sort is stable
RECURSIVE sort_by_popularity(_)
sort_by_popularity(sorted_items) ==
    IF sorted_items = <<>> THEN <<>>
    ELSE insert_by_popularity(sorted_items[Len(sorted_items)],
            sort_by_popularity(SubSeq(sorted_items, 1, Len(sorted_items) - 1)))

\* the concatenation of the lists of a list
RECURSIVE extend_all(_)
extend_all(lists) == IF lists = <<>> THEN <<>> ELSE Head(lists) \o extend_all(Tail(lists))

\* the requests of a call to the two services, in order
popularity_requests(orthologs) ==
    [ i \in DOMAIN orthologs |-> <<"get_textpresso_popularity", orthologs[i][2]>> ]
gene_class_requests(orthologs_pop) ==
    [ i \in DOMAIN orthologs_pop |-> <<"get_gene_class", orthologs_pop[i][1][1]>> ]

\* generate_ortholog_sentence_wormbase_non_c_elegans, a being its arguments
\* and the answers of the two services: a.popularity[keywords] is the count
\* of get_textpresso_popularity, whose a.failing-th request raises (none when
\* 0), a.gene_class[gene_id] is the answer of the gene class service
generate_ortholog_sentence_wormbase_non_c_elegans(a) ==
    LET orthologs == a.orthologs
        orthologs_sp_fullname == abbreviate(a.orthologs_sp_fullname)
    IN  IF Len(orthologs) = 0
        THEN [ kind |-> "None", requests |-> <<>> ]
        ELSE IF Len(orthologs) <= 3
        THEN [ kind |-> "sentence",
               requests |-> <<>>,
               orth_sentence |->
                   <<"i", "s", " ", "a", "n", " ", "o", "r", "t", "h", "o", "l", "o", "g", " ", "o", "f", " ">> \o orthologs_sp_fullname \o <<" ">>
                   \o concatenate_words_with_oxford_comma(
                         sorted([ i \in DOMAIN orthologs |-> orthologs[i][2] ])),
               gene_symbols_wo_class |-> <<>>,
               classes_symbols |-> <<>>,
               genes_symbols_in_classes |-> <<>> ]
        ELSE IF a.failing > 0
        THEN [ kind |-> "raise", error |-> "URLError",
               requests |-> SubSeq(popularity_requests(orthologs), 1, a.failing) ]
        ELSE
        LET orthologs_pop ==
                sorted_by_popularity_and_symbol(
                    [ i \in DOMAIN orthologs |-> <<orthologs[i], a.popularity[orthologs[i][2]]>> ])
            class_of(o_p) == get_gene_class(a.gene_class[o_p[1][1]])
            keys == first_appearances(
                        SelectSeq([ i \in DOMAIN orthologs_pop |-> class_of(orthologs_pop[i]) ],
                                  LAMBDA c : c # Absent))
            members == [ k \in Range(keys) |-> SelectSeq(orthologs_pop, LAMBDA o_p : class_of(o_p) = k) ]
            without_class == SelectSeq(orthologs_pop, LAMBDA o_p : class_of(o_p) = Absent)
            orthologs_pop_wo_class ==
                IF Len(keys) = 1
                THEN without_class \o members[keys[1]]
                ELSE without_class
                     \o extend_all([ i \in DOMAIN keys |->
                                       IF Len(members[keys[i]]) = 1 THEN members[keys[i]] ELSE <<>> ])
            kept == IF Len(keys) = 1 THEN <<>>
                    ELSE SelectSeq(keys, LAMBDA k : Len(members[k]) > 1)
            sorted_items ==
                first_three(sort_by_popularity(
                    [ i \in DOMAIN orthologs_pop_wo_class |-> <<orthologs_pop_wo_class[i], 0>> ]
                    \o [ i \in DOMAIN kept |-> <<members[kept[i]][1], 1, kept[i]>> ]))
            items_wo_class == SelectSeq(sorted_items, LAMBDA item : item[2] = 0)
            items_of_classes == SelectSeq(sorted_items, LAMBDA item : item[2] = 1)
            gene_symbols_wo_class == [ i \in DOMAIN items_wo_class |-> items_wo_class[i][1][1][2] ]
            classes_symbols == [ i \in DOMAIN items_of_classes |-> items_of_classes[i][3][1] ]
            genes_symbols_in_classes ==
                [ i \in DOMAIN items_of_classes |-> items_of_classes[i][1][1][2] ]
            classes_word == IF Len(classes_symbols) > 1 THEN <<"c", "l", "a", "s", "s", "e", "s">> ELSE <<"c", "l", "a", "s", "s">>
            sentences_arr ==
                (IF Len(gene_symbols_wo_class) > 0
                 THEN << orthologs_sp_fullname \o <<" ">>
                         \o concatenate_words_with_oxford_comma(gene_symbols_wo_class) >>
                 ELSE <<>>)
                \o (IF Len(classes_symbols) > 0
                    THEN << <<"m", "e", "m", "b", "e", "r", "s", " ", "o", "f", " ", "t", "h", "e", " ">> \o orthologs_sp_fullname \o <<" ">>
                            \o concatenate_words_with_oxford_comma(classes_symbols)
                            \o <<" ", "g", "e", "n", "e", " ">> \o classes_word \o <<" ", "i", "n", "c", "l", "u", "d", "i", "n", "g", " ">>
                            \o concatenate_words_with_oxford_comma(genes_symbols_in_classes) >>
                    ELSE <<>>)
        IN  [ kind |-> "sentence",
              requests |-> popularity_requests(orthologs) \o gene_class_requests(orthologs_pop),
              orth_sentence |-> <<"i", "s", " ", "a", "n", " ", "o", "r", "t", "h", "o", "l", "o", "g", " ", "o", "f", " ">> \o join(and_separator, sentences_arr),
              gene_symbols_wo_class |-> gene_symbols_wo_class,
              classes_symbols |-> classes_symbols,
              genes_symbols_in_classes |-> genes_symbols_in_classes ]

\* a call with its arguments and the answers of the services drawn, before
\* the function runs
InitSisterOrthologs ==
    /\ FetcherIdle
    /\ SelectorsIdle
    /\ cs_call = NoCall
    /\ ox_call = NoCall
    /\ ss_call = NoCall
    /\ ss_other = NoCall
    /\ oh_call = NoCall
    /\ \E n \in 0..MaxSisterOrthologs :
          LET orthologs == SubSeq(SisterOrthologs, 1, n)
              gene_ids == { o[1] : o \in Range(orthologs) }
          IN  /\ on_call \in [ op : {"call"},
                               orthologs : {orthologs},
                               orthologs_sp_fullname : SpeciesNames,
                               popularity : [ { o[2] : o \in Range(orthologs) } -> Popularities ],
                               failing : 0..n,
                               gene_class : [ gene_ids -> GeneClassAnswers ],
                               result : {ReturnNone} ]
              \* the gene class service is not reached when a popularity request fails
              /\ on_call.failing > 0 =>
                    on_call.gene_class = [ id \in gene_ids |-> [kind |-> "data", label |-> Absent] ]
              \* the labels of the classes are only shown, never compared: the
              \* second label is given to a gene after the first label only
              /\ \A i \in 1..n :
                    on_call.gene_class[orthologs[i][1]] = [kind |-> "data", label |-> Given(<<"K", "B">>)]
                    => \E j \in 1..(i - 1) :
                          on_call.gene_class[orthologs[j][1]] = [kind |-> "data", label |-> Given(<<"K", "A">>)]

generate_ortholog_sentence_wormbase_non_c_elegans_call ==
    /\ on_call.op = "call"
    /\ on_call' = [ on_call EXCEPT
                      !.op = "return",
                      !.result = generate_ortholog_sentence_wormbase_non_c_elegans(on_call) ]
    /\ UNCHANGED <<obo_file, go_ontology, go_data, fetcher_pc, go_call, cs_call, ox_call,
                   ss_call, ss_other, oh_call, selector_calls>>

NextSisterOrthologs == generate_ortholog_sentence_wormbase_non_c_elegans_call

SpecSisterOrthologs == InitSisterOrthologs /\ [][NextSisterOrthologs]_vars

(***************************************************************************)
(* Properties of generate_ortholog_sentence_wormbase_non_c_elegans         *)
(***************************************************************************)
\* the call has returned a sentence for more than three orthologs
SisterSentence ==
    /\ on_call.op = "return"
    /\ Len(on_call.orthologs) > 3
    /\ on_call.result.kind = "sentence"

PopularityOf(o) == on_call.popularity[o[2]]

\* the class that get_gene_class returns for an ortholog
ClassOf(o) ==
    IF on_call.gene_class[o[1]].kind = "data" THEN on_call.gene_class[o[1]].label ELSE Absent

MembersOf(c) == { o \in Range(on_call.orthologs) : ClassOf(o) = c }

ClassesFound == { ClassOf(o) : o \in Range(on_call.orthologs) } \ {Absent}

\* the classes that are items of the merged list: those of more than one
\* ortholog, when more than one class is found
ClassItems ==
    IF Cardinality(ClassesFound) = 1 THEN {}
    ELSE { c \in ClassesFound : Cardinality(MembersOf(c)) > 1 }

\* the orthologs that are items of the merged list
OrthologItems == { o \in Range(on_call.orthologs) : ClassOf(o) \notin ClassItems }

\* the score of a class: the popularity of its most popular member
ClassScore(c) ==
    CHOOSE s \in Popularities :
        /\ \E o \in MembersOf(c) : PopularityOf(o) = s
        /\ \A o \in MembersOf(c) : PopularityOf(o) <= s

\* the sentence names the ortholog, the class
NamedOrtholog(o) == Contains(on_call.result.orth_sentence, o[2])
NamedClass(c) == Contains(on_call.result.orth_sentence, c[1])

\* C19 as claimed: of two orthologs of the list the more popular one is
\* named before the other, and of two orthologs with the same popularity the
\* one whose symbol is first in the alphabet: when the sentence names the
\* second it names the first.
C19_TiesAlphabetical ==
    SisterSentence =>
        \A x, y \in OrthologItems :
            (\/ PopularityOf(x) > PopularityOf(y)
             \/ PopularityOf(x) = PopularityOf(y) /\ StrLess(x[2], y[2]))
            => (NamedOrtholog(y) => NamedOrtholog(x))

\* the scores of a list of symbols of orthologs never go up
Descending(symbols) ==
    \A i, j \in DOMAIN symbols : i < j => on_call.popularity[symbols[i]] >= on_call.popularity[symbols[j]]

\* C20: the sentence names at most 3 items in its two clauses, an item being
\* an ortholog without class or a class, which stands for its most popular
\* member with that member's score; each clause is in descending order of
\* score, and no item left out has a higher score than a named one.
C20_TopThreeItems ==
    SisterSentence =>
        LET named == { o \in Range(on_call.orthologs) : NamedOrtholog(o) }
            named_classes == { c \in ClassesFound : NamedClass(c) }
            classes == ClassItems
            orthologs == { o \in Range(on_call.orthologs) : ClassOf(o) \notin classes }
            score == [ c \in classes |-> ClassScore(c) ]
        IN  /\ Cardinality(named) <= 3
            /\ Cardinality(orthologs \cap named) + Cardinality(named_classes) <= 3
            /\ named_classes \subseteq classes
            /\ \A c \in classes :
                  IF c \in named_classes
                  THEN /\ Cardinality(MembersOf(c) \cap named) = 1
                       /\ \A o \in MembersOf(c) \cap named : PopularityOf(o) = score[c]
                  ELSE MembersOf(c) \cap named = {}
            /\ \A x \in orthologs \ named :
                  /\ \A y \in orthologs \cap named : PopularityOf(x) <= PopularityOf(y)
                  /\ \A c \in named_classes : PopularityOf(x) <= score[c]
            /\ \A d \in classes \ named_classes :
                  /\ \A y \in orthologs \cap named : score[d] <= PopularityOf(y)
                  /\ \A c \in named_classes : score[d] <= score[c]
            /\ Descending(on_call.result.gene_symbols_wo_class)
            /\ Descending(on_call.result.genes_symbols_in_classes)
            /\ Len(on_call.result.gene_symbols_wo_class) + Len(on_call.result.classes_symbols) <= 3

\* five orthologs, two of them of the class KA, which is named with its more
\* popular member next to two orthologs without class; the ortholog left out
\* is less popular than everything named
C20_Witness ==
    /\ SisterSentence
    /\ Len(on_call.orthologs) = 5
    /\ ClassItems = { Given(<<"K", "A">>) }
    /\ Cardinality(ClassesFound) = 2
    /\ NamedClass(Given(<<"K", "A">>))
    /\ \E o, p \in MembersOf(Given(<<"K", "A">>)) :
          NamedOrtholog(o) /\ ~NamedOrtholog(p) /\ PopularityOf(o) > PopularityOf(p)
    /\ Cardinality({ o \in OrthologItems : NamedOrtholog(o) }) = 2
    /\ \E x \in OrthologItems :
          /\ ~NamedOrtholog(x)
          /\ \A y \in OrthologItems : NamedOrtholog(y) => PopularityOf(x) < PopularityOf(y)
    /\ Contains(on_call.result.orth_sentence, <<" ", "a", "n", "d", " ", "m", "e", "m", "b", "e", "r", "s", " ", "o", "f", " ", "t", "h", "e", " ", "C", ".", " ", "b", "r", "i", "g", "g", "s", "a", "e", " ", "K", "A", " ", "g", "e", "n", "e", " ", "c", "l", "a", "s", "s", " ", "i", "n", "c", "l", "u", "d", "i", "n", "g", " ">>)

\* the orthologs whose gene class request fails
ClassRequestFailed == { o \in Range(on_call.orthologs) : on_call.gene_class[o[1]].kind = "raise" }

\* C21: a failing request to the popularity service or to the gene class
\* service is caught: the call never raises, it returns a sentence for every
\* list of orthologs that is not empty, and an ortholog whose gene class
\* request fails is named, if at all, among the orthologs without class.
C21_ServiceFailuresCaught ==
    on_call.op = "return" =>
        /\ on_call.result.kind # "raise"
        /\ Len(on_call.orthologs) > 0 => on_call.result.kind = "sentence"
        /\ SisterSentence =>
              \A o \in ClassRequestFailed :
                  NamedOrtholog(o) => o[2] \in Range(on_call.result.gene_symbols_wo_class)

\* the number of requests of a call that are equal to request
RequestCount(request) ==
    Cardinality({ i \in DOMAIN on_call.result.requests : on_call.result.requests[i] = request })

\* C22: for more than 3 orthologs the call makes one request to the
\* popularity service for every ortholog, then one request to the gene class
\* service for every ortholog, and no other request; for 3 or fewer orthologs
\* it makes no request.
C22_OneRequestPerOrtholog ==
    on_call.op = "return" =>
        LET requests == on_call.result.requests
            n == Len(on_call.orthologs)
        IN  IF n > 3
            THEN /\ Len(requests) = 2 * n
                 /\ \A i \in 1..n : requests[i][1] = "get_textpresso_popularity"
                 /\ \A i \in (n + 1)..(2 * n) : requests[i][1] = "get_gene_class"
                 /\ \A o \in Range(on_call.orthologs) :
                       /\ RequestCount(<<"get_textpresso_popularity", o[2]>>) = 1
                       /\ RequestCount(<<"get_gene_class", o[1]>>) = 1
            ELSE requests = <<>>

(***************************************************************************)
(* sentence_generation_functions.py:                                       *)
(* generate_orthology_sentence_alliance_human                              *)
(***************************************************************************)
\* the longest list of orthologs passed to generate_orthology_sentence_alliance_human
MaxAllianceOrthologs == 4

\* orthologs as [id, symbol, name]: two of them share a name, one has an empty name
AllianceOrthologs ==
    { <<"HGNC:1", <<"P", "B">>, <<"b">>>>,
      <<"HGNC:2", <<"P", "A">>, <<"a">>>>,
      <<"HGNC:3", <<"P", "E">>, <<>>>>,
      <<"HGNC:4", <<"P", "D">>, <<"a">>>>,
      <<"HGNC:5", <<"P", "C">>, <<"c">>>> }

orthologous_to == <<"o", "r", "t", "h", "o", "l", "o", "g", "o", "u", "s", " ", "t", "o", " ">>
human == <<"h", "u", "m", "a", "n">>
several_human_genes_including == <<"s", "e", "v", "e", "r", "a", "l", " ", "h", "u", "m", "a", "n", " ", "g", "e", "n", "e", "s", " ", "i", "n", "c", "l", "u", "d", "i", "n", "g">>

\* orth[1] + " (" + orth[2] + ")" if orth[2] else orth[1]
ortholog_display(orth) ==
    IF orth[3] # <<>> THEN orth[2] \o <<" ", "(">> \o orth[3] \o <<")">> ELSE orth[2]

RECURSIVE insert_by_name(_, _)
insert_by_name(orth, orthologs) ==
    IF orthologs = <<>> THEN <<orth>>
    ELSE IF StrLess(orth[3], Head(orthologs)[3])
         THEN <<orth>> \o orthologs
         ELSE <<Head(orthologs)>> \o insert_by_name(orth, Tail(orthologs))

\* sorted() left out: the orthologs in the order of the argument
sorted_by_name_left_out(orthologs) == orthologs

\* sorted(orthologs, key=lambda x: x[2]): a stable sort, so each ortholog goes
\* behind the orthologs of the same name that precede it in the list
RECURSIVE sorted_by_name(_)
sorted_by_name(orthologs) ==
    IF orthologs = <<>> THEN <<>>
    ELSE insert_by_name(orthologs[Len(orthologs)],
                        sorted_by_name(SubSeq(orthologs, 1, Len(orthologs) - 1)))

generate_orthology_sentence_alliance_human(orthologs, excluded_orthologs) ==
    IF Len(orthologs) > 0
    THEN LET truncate == excluded_orthologs \/ Len(orthologs) > 3
             all_display == sorted_by_name(orthologs)
             orthologs_display ==
                 IF truncate
                 THEN SubSeq(all_display, 1, IF Len(all_display) < 3 THEN Len(all_display) ELSE 3)
                 ELSE all_display
             prefix == IF truncate THEN several_human_genes_including ELSE human
         IN  [kind |-> "sentence",
              text |-> orthologous_to \o prefix \o <<" ">> \o
                       concatenate_words_with_oxford_comma(
                           [i \in DOMAIN orthologs_display |->
                               ortholog_display(orthologs_display[i])])]
    ELSE ReturnNone

\* a call of generate_orthology_sentence_alliance_human with a list of distinct orthologs
InitAllianceHuman ==
    /\ FetcherIdle
    /\ cs_call = NoCall
    /\ ox_call = NoCall
    /\ ss_call = NoCall
    /\ ss_other = NoCall
    /\ oh_call = NoCall
    /\ on_call = NoCall
    /\ ip_call = NoCall
    /\ dm_orthologs = << >>
    /\ dm_pc = "new"
    /\ dm_call = NoCall
    /\ ah_call \in [op : {"call"},
                    orthologs : {s \in SeqUpTo(AllianceOrthologs, MaxAllianceOrthologs) :
                                    \A i, j \in DOMAIN s : i # j => s[i] # s[j]},
                    excluded_orthologs : BOOLEAN,
                    result : {ReturnNone}]

generate_orthology_sentence_alliance_human_call ==
    /\ ah_call.op = "call"
    /\ ah_call' = [ah_call EXCEPT
                     !.op = "return",
                     !.result = generate_orthology_sentence_alliance_human(
                                    ah_call.orthologs, ah_call.excluded_orthologs)]
    /\ UNCHANGED <<obo_file, go_ontology, go_data, fetcher_pc, go_call, cs_call, ox_call,
                   generator_calls, ip_call, dm_orthologs, dm_pc, dm_call>>

NextAllianceHuman == generate_orthology_sentence_alliance_human_call

SpecAllianceHuman == InitAllianceHuman /\ [][NextAllianceHuman]_vars

(***************************************************************************)
(* Properties of generate_orthology_sentence_alliance_human                *)
(***************************************************************************)
AllianceReturned == ah_call.op = "return"

\* the place of the i-th ortholog of the argument in sorted order: behind every
\* ortholog of a smaller name and every earlier ortholog of the same name
rank_by_name(orthologs, i) ==
    1 + Cardinality({ j \in DOMAIN orthologs :
                        \/ StrLess(orthologs[j][3], orthologs[i][3])
                        \/ orthologs[j][3] = orthologs[i][3] /\ j < i })

\* the first n orthologs in sorted order
first_by_name(orthologs, n) ==
    [k \in 1..n |-> orthologs[CHOOSE i \in DOMAIN orthologs : rank_by_name(orthologs, i) = k]]

alliance_text(prefix, shown) ==
    orthologous_to \o prefix \o <<" ">> \o
    concatenate_words_with_oxford_comma([i \in DOMAIN shown |-> ortholog_display(shown[i])])

\* C23: generate_orthology_sentence_alliance_human returns None for an empty list;
\* with excluded_orthologs or more than 3 orthologs it says 'several human genes
\* including' and lists the first min(3, n) orthologs in sorted order; otherwise
\* it says 'human' and lists all the orthologs
C23_AllianceHumanSentence ==
    AllianceReturned =>
        LET orthologs == ah_call.orthologs
            n == Len(orthologs)
        IN  IF n = 0 THEN ah_call.result = ReturnNone
            ELSE IF ah_call.excluded_orthologs \/ n > 3
            THEN /\ ah_call.result.kind = "sentence"
                 /\ ah_call.result.text =
                        alliance_text(several_human_genes_including,
                                      first_by_name(orthologs, IF n < 3 THEN n ELSE 3))
            ELSE /\ ah_call.result.kind = "sentence"
                 /\ ah_call.result.text = alliance_text(human, first_by_name(orthologs, n))

\* four orthologs given out of order, two of the same name among the three shown
C23_Witness ==
    /\ AllianceReturned
    /\ Len(ah_call.orthologs) > 3
    /\ ah_call.orthologs[1][1] = "HGNC:1"
    /\ ah_call.orthologs[2][1] = "HGNC:4"
    /\ ah_call.orthologs[3][1] = "HGNC:2"
    /\ ~ah_call.excluded_orthologs
    /\ Contains(ah_call.result.text, several_human_genes_including)
    /\ Contains(ah_call.result.text, <<"P", "D", " ", "(", "a", ")", ",", " ", "P", "A", " ", "(", "a", ")", ",", " ", "a", "n", "d", " ", "P", "B", " ", "(", "b", ")">>)

(***************************************************************************)
(* sentence_generation_functions.py: get_best_human_ortholog_for_info_poor *)
(***************************************************************************)
\* the most annotations human_df_agr holds for one gene
MaxGeneAnnotations == 2

EnsemblIds == {"ENSG1", "ENSG2"}
HgncIds == {"HGNC:1", "HGNC:2"}

\* human orthologs as [id, symbol]; only ortholog[0] is read
InfoPoorOrthologs == { <<"ENSG1", "HA">>, <<"ENSG2", "HB">> }

\* go_sent_gen_common_props["evidence_codes_groups_map"]
evidence_codes_groups_map ==
    [type \in {"IDA", "HDA", "IEA"} |->
        CASE type = "IDA" -> "EXPERIMENTAL"
          [] type = "HDA" -> "HIGH_THROUGHPUT_EXPERIMENTAL"
          [] type = "IEA" -> "ELECTRONIC"]

\* the annotations of a gene that the function reads: aspect and evidence type
InfoPoorAnnotations ==
    { [aspect |-> "F", evidence_type |-> "IDA"],
      [aspect |-> "F", evidence_type |-> "HDA"],
      [aspect |-> "F", evidence_type |-> "IEA"],
      [aspect |-> "P", evidence_type |-> "IDA"] }

\* gene_id="RGD:" + ensembl_hgnc_ids_map[ortholog[0]]
rgd_gene_id(hgnc_id) == <<"RGD:", hgnc_id>>

\* only the group EXPERIMENTAL counts as experimental
is_experimental_without_high_throughput(group) == group \in {"EXPERIMENTAL"}

\* ... in ["EXPERIMENTAL", "HIGH_THROUGHPUT_EXPERIMENTAL"]
is_experimental(group) == group \in {"EXPERIMENTAL", "HIGH_THROUGHPUT_EXPERIMENTAL"}

\* counts[key] += 1 on a defaultdict(int), kept as (key, value) items in order of insertion
increment(counts, key) ==
    IF \E i \in DOMAIN counts : counts[i][1] = key
    THEN [i \in DOMAIN counts |->
            IF counts[i][1] = key THEN <<key, counts[i][2] + 1>> ELSE counts[i]]
    ELSE Append(counts, <<key, 1>>)

\* the loop over the annotations of one ortholog; counts is [exp, predicted]
RECURSIVE count_annotations(_, _, _)
count_annotations(counts, key, annotations) ==
    IF annotations = <<>> THEN counts
    ELSE LET annotation == Head(annotations)
             counted ==
                 IF annotation.aspect = "F"
                 THEN IF is_experimental(evidence_codes_groups_map[annotation.evidence_type])
                      THEN [counts EXCEPT !.exp = increment(counts.exp, key)]
                      ELSE [counts EXCEPT !.predicted = increment(counts.predicted, key)]
                 ELSE counts
         IN  count_annotations(counted, key, Tail(annotations))

\* the loop over human_orthologs
RECURSIVE count_orthologs(_, _, _, _)
count_orthologs(counts, human_orthologs, ensembl_hgnc_ids_map, annotations_of) ==
    IF human_orthologs = <<>> THEN counts
    ELSE LET ortholog == Head(human_orthologs)
             counted ==
                 IF /\ ortholog[1] \in DOMAIN ensembl_hgnc_ids_map
                    /\ ensembl_hgnc_ids_map[ortholog[1]] # ""
                 THEN count_annotations(
                          counts, ensembl_hgnc_ids_map[ortholog[1]],
                          annotations_of[rgd_gene_id(ensembl_hgnc_ids_map[ortholog[1]])])
                 ELSE counts
         IN  count_orthologs(counted, Tail(human_orthologs), ensembl_hgnc_ids_map, annotations_of)

RECURSIVE insert_by_value_descending(_, _)
insert_by_value_descending(item, items) ==
    IF items = <<>> THEN <<item>>
    ELSE IF item[2] > Head(items)[2]
         THEN <<item>> \o items
         ELSE <<Head(items)>> \o insert_by_value_descending(item, Tail(items))

\* sorted(items, key=lambda x: x[1], reverse=True): items of the same value keep their order
RECURSIVE sorted_by_value_descending(_)
sorted_by_value_descending(items) ==
    IF items = <<>> THEN <<>>
    ELSE insert_by_value_descending(items[Len(items)],
                                    sorted_by_value_descending(SubSeq(items, 1, Len(items) - 1)))

get_best_human_ortholog_for_info_poor(human_orthologs, ensembl_hgnc_ids_map, annotations_of) ==
    IF Len(human_orthologs) > 0
    THEN LET counts == count_orthologs([exp |-> <<>>, predicted |-> <<>>], human_orthologs,
                                       ensembl_hgnc_ids_map, annotations_of)
         IN  IF Len(counts.exp) > 0
             THEN sorted_by_value_descending(counts.exp)[1][1]
             ELSE IF Len(counts.predicted) > 0
             THEN sorted_by_value_descending(counts.predicted)[1][1]
             ELSE ""
    ELSE ""

\* a call with distinct orthologs, a map that may lack an Ensembl id or hold an
\* empty identifier for it, and the annotations human_df_agr returns per gene id
InitInfoPoor ==
    /\ FetcherIdle
    /\ cs_call = NoCall
    /\ ox_call = NoCall
    /\ ss_call = NoCall
    /\ ss_other = NoCall
    /\ oh_call = NoCall
    /\ on_call = NoCall
    /\ ah_call = NoCall
    /\ dm_orthologs = << >>
    /\ dm_pc = "new"
    /\ dm_call = NoCall
    /\ ip_call \in [op : {"call"},
                    human_orthologs : {s \in SeqUpTo(InfoPoorOrthologs, Cardinality(InfoPoorOrthologs)) :
                                          \A i, j \in DOMAIN s : i # j => s[i] # s[j]},
                    ensembl_hgnc_ids_map :
                        UNION {[D -> HgncIds \cup {""}] : D \in SUBSET EnsemblIds},
                    annotations_of :
                        [{rgd_gene_id(h) : h \in HgncIds} ->
                            SeqUpTo(InfoPoorAnnotations, MaxGeneAnnotations)],
                    result : {""}]

get_best_human_ortholog_for_info_poor_call ==
    /\ ip_call.op = "call"
    /\ ip_call' = [ip_call EXCEPT
                     !.op = "return",
                     !.result = get_best_human_ortholog_for_info_poor(
                                    ip_call.human_orthologs, ip_call.ensembl_hgnc_ids_map,
                                    ip_call.annotations_of)]
    /\ UNCHANGED <<obo_file, go_ontology, go_data, fetcher_pc, go_call, cs_call, ox_call,
                   generator_calls, ah_call, dm_orthologs, dm_pc, dm_call>>

NextInfoPoor == get_best_human_ortholog_for_info_poor_call

SpecInfoPoor == InitInfoPoor /\ [][NextInfoPoor]_vars

(***************************************************************************)
(* Properties of get_best_human_ortholog_for_info_poor                     *)
(***************************************************************************)
InfoPoorReturned == ip_call.op = "return"

\* the orthologs of the call with a valid mapped identifier (positions in the list)
ValidlyMapped ==
    { i \in DOMAIN ip_call.human_orthologs :
        /\ ip_call.human_orthologs[i][1] \in DOMAIN ip_call.ensembl_hgnc_ids_map
        /\ ip_call.ensembl_hgnc_ids_map[ip_call.human_orthologs[i][1]] # "" }

MappedId(i) == ip_call.ensembl_hgnc_ids_map[ip_call.human_orthologs[i][1]]

\* the molecular-function annotations counted for an identifier, experimental or
\* not: one per ortholog mapped to it and annotation of its gene
FunctionCount(hgnc_id, experimental) ==
    Cardinality(
        { <<i, k>> \in ValidlyMapped \X (1..MaxGeneAnnotations + 1) :
            /\ MappedId(i) = hgnc_id
            /\ k \in DOMAIN ip_call.annotations_of[<<"RGD:", hgnc_id>>]
            /\ LET annotation == ip_call.annotations_of[<<"RGD:", hgnc_id>>][k]
               IN  /\ annotation.aspect = "F"
                   /\ experimental <=>
                        annotation.evidence_type \in {"IDA", "HDA"} })

\* C24: get_best_human_ortholog_for_info_poor returns a mapped identifier of the
\* highest count of experimental molecular-function annotations when there is
\* such an annotation, whatever the other counts; otherwise one of the highest
\* count of other molecular-function annotations; otherwise the empty string
C24_BestInfoPoorOrtholog ==
    InfoPoorReturned =>
        LET ids == { MappedId(i) : i \in ValidlyMapped }
            best == ip_call.result
        IN  IF \E h \in ids : FunctionCount(h, TRUE) > 0
            THEN /\ best \in ids
                 /\ \A h \in ids : FunctionCount(h, TRUE) <= FunctionCount(best, TRUE)
            ELSE IF \E h \in ids : FunctionCount(h, FALSE) > 0
            THEN /\ best \in ids
                 /\ \A h \in ids : FunctionCount(h, FALSE) <= FunctionCount(best, FALSE)
            ELSE best = ""

\* the winner has one high-throughput annotation, the other gene two predicted ones
C24_Witness ==
    /\ InfoPoorReturned
    /\ Len(ip_call.human_orthologs) = 2
    /\ Cardinality({ MappedId(i) : i \in ValidlyMapped }) = 2
    /\ \E h \in HgncIds :
        /\ FunctionCount(h, TRUE) = 0
        /\ FunctionCount(h, FALSE) = 2
        /\ h # ip_call.result
    /\ FunctionCount(ip_call.result, TRUE) = 1
    /\ \E k \in DOMAIN ip_call.annotations_of[<<"RGD:", ip_call.result>>] :
        ip_call.annotations_of[<<"RGD:", ip_call.result>>][k].evidence_type = "HDA"

\* no ortholog with a valid identifier has a molecular-function annotation
C24_WitnessNone ==
    /\ InfoPoorReturned
    /\ Len(ip_call.human_orthologs) = 2
    /\ ValidlyMapped # {}
    /\ \E i \in DOMAIN ip_call.human_orthologs : i \notin ValidlyMapped
    /\ \E h \in HgncIds : Len(ip_call.annotations_of[<<"RGD:", h>>]) = 2
    /\ ip_call.result = ""

(***************************************************************************)
(* wb_data_manager.py: WBDataManager.orthologs, load_orthology_from_file,  *)
(* get_best_orthologs_for_gene                                             *)
(***************************************************************************)
\* the most orthologs of one species listed for a gene in the orthology file
MaxSpeciesOrthologs == 3
\* the longest list of candidate species passed to get_best_orthologs_for_gene
MaxCandidateSpecies == 2
\* the most annotations the sister species has for one ortholog
MaxOrthologAnnotations == 1

OrthologySpecies == {"Homo sapiens", "Caenorhabditis briggsae", "Caenorhabditis remanei"}

\* the fields [id, symbol, methods] of an ortholog line, methods joined by ';'
FileOrthologs ==
    { <<"O1", "sa", <<"m", ";", "n">>>>,
      <<"O2", "sb", <<"n", ";", "p">>>>,
      <<"O3", "sc", <<"m">>>>,
      <<"O4", "sd", <<"m", ";", "n", ";", "p">>>> }

\* the keys of self.orthologs: "WB:" + gene_id
wb_gene_id(gene_id) == <<"WB:", gene_id>>

\* the lines of a file that lists the orthologs of one species for one gene
ortholog_lines(species, orthologs) ==
    [i \in DOMAIN orthologs |-> <<species>> \o orthologs[i]]

DistinctUpTo(S, n) == { s \in SeqUpTo(S, n) : \A i, j \in DOMAIN s : i # j => s[i] # s[j] }

\* orthology files: a comment, WBGene1 with orthologs of up to two species (or
\* none at all) and WBGene2 with two orthologs of one species, each block closed by '='
OrthologyFiles ==
    { << <<"#", "orthologs">>, <<"WBGene1", "gene-1">> >>
        \o ortholog_lines("Homo sapiens", human_lines)
        \o ortholog_lines("Caenorhabditis briggsae", briggsae_lines)
        \o << <<"=">>, <<"WBGene2", "gene-2">>,
              <<"Caenorhabditis remanei", "O3", "sc", <<"m">>>>,
              <<"Caenorhabditis remanei", "O1", "sa", <<"m", ";", "n">>>>,
              <<"=">> >> :
        human_lines \in DistinctUpTo(FileOrthologs, MaxSpeciesOrthologs),
        briggsae_lines \in DistinctUpTo({<<"O3", "sc", <<"m">>>>}, 1) }

\* orthologs[species].append(fields) on a defaultdict(list)
append_ortholog(orthologs, species, fields) ==
    [s \in DOMAIN orthologs \cup {species} |->
        IF s = species
        THEN (IF s \in DOMAIN orthologs THEN orthologs[s] ELSE <<>>) \o <<fields>>
        ELSE orthologs[s]]

\* the loop of load_orthology_from_file over the lines that are left
RECURSIVE scan_orthology_lines(_, _, _, _, _)
scan_orthology_lines(lines, gene_id, header, orthologs, loaded) ==
    IF lines = <<>> THEN loaded
    ELSE LET line == Head(lines)
         IN  IF line[1] = "#"
             THEN scan_orthology_lines(Tail(lines), gene_id, header, orthologs, loaded)
             ELSE IF Len(line) = 1 /\ line[1] = "="
             THEN scan_orthology_lines(Tail(lines), gene_id, TRUE, << >>,
                                       Put(loaded, wb_gene_id(gene_id), orthologs))
             ELSE IF header
             THEN scan_orthology_lines(Tail(lines), line[1], FALSE, orthologs, loaded)
             ELSE scan_orthology_lines(Tail(lines), gene_id, header,
                                       append_ortholog(orthologs, line[1], SubSeq(line, 2, 4)),
                                       loaded)

\* len(methods.split(";"))
method_count(methods) ==
    1 + Cardinality({ i \in DOMAIN methods : methods[i] = ";" })

\* the key (x[2], x[3]) of x is greater than that of y
methods_and_annotations_greater(x, y) ==
    x[3] > y[3] \/ (x[3] = y[3] /\ x[4] > y[4])

\* the key x[2] of x is greater than that of y
methods_greater(x, y) == x[3] > y[3]

RECURSIVE insert_by_methods(_, _)
insert_by_methods(key, keys) ==
    IF keys = <<>> THEN <<key>>
    ELSE IF methods_greater(key, Head(keys))
         THEN <<key>> \o keys
         ELSE <<Head(keys)>> \o insert_by_methods(key, Tail(keys))

\* sorted(orthologs_keys, key=lambda x: x[2], reverse=True)
RECURSIVE sorted_by_methods(_)
sorted_by_methods(keys) ==
    IF keys = <<>> THEN <<>>
    ELSE insert_by_methods(keys[Len(keys)], sorted_by_methods(SubSeq(keys, 1, Len(keys) - 1)))

RECURSIVE insert_by_methods_and_annotations(_, _)
insert_by_methods_and_annotations(key, keys) ==
    IF keys = <<>> THEN <<key>>
    ELSE IF methods_and_annotations_greater(key, Head(keys))
         THEN <<key>> \o keys
         ELSE <<Head(keys)>> \o insert_by_methods_and_annotations(key, Tail(keys))

\* the sort key without the number of annotations
sorted_by_methods_alone(keys) == sorted_by_methods(keys)

\* sorted(orthologs_keys, key=lambda x: (x[2], x[3]), reverse=True)
RECURSIVE sorted_by_methods_and_annotations(_)
sorted_by_methods_and_annotations(keys) ==
    IF keys = <<>> THEN <<>>
    ELSE insert_by_methods_and_annotations(
             keys[Len(keys)],
             sorted_by_methods_and_annotations(SubSeq(keys, 1, Len(keys) - 1)))

\* [[k[0], k[1]] for k in keys if k[2] == count]
RECURSIVE keys_of_methods(_, _)
keys_of_methods(keys, count) ==
    IF keys = <<>> THEN <<>>
    ELSE (IF Head(keys)[3] = count THEN << <<Head(keys)[1], Head(keys)[2]>> >> ELSE <<>>)
            \o keys_of_methods(Tail(keys), count)

\* lines 276-295: the best orthologs among the orthologs of the chosen species;
\* sister is Absent or the number of annotations the sister species has per gene
best_of_species(orthologs, sister) ==
    IF Len(orthologs) > 1
    THEN LET orthologs_keys ==
                 [i \in DOMAIN orthologs |->
                     IF sister # Absent
                     THEN <<orthologs[i][1], orthologs[i][2], method_count(orthologs[i][3]),
                            sister[1][orthologs[i][1]]>>
                     ELSE <<orthologs[i][1], orthologs[i][2], method_count(orthologs[i][3])>>]
         IN  IF sister # Absent
             THEN << SubSeq(sorted_by_methods_and_annotations(orthologs_keys)[1], 1, 2) >>
             ELSE LET most == CHOOSE m \in {orthologs_keys[i][3] : i \in DOMAIN orthologs_keys} :
                                 \A i \in DOMAIN orthologs_keys : orthologs_keys[i][3] <= m
                  IN  keys_of_methods(sorted_by_methods(orthologs_keys), most)
    ELSE << <<orthologs[1][1], orthologs[1][2]>> >>

\* the loop of lines 270-296 over the candidate species that are left; found is
\* (best_orthologs, curr_orth_fullname) so far
RECURSIVE scan_species(_, _, _, _)
scan_species(species_left, gene_orthologs, sister, found) ==
    IF species_left = <<>> THEN found
    ELSE LET curr_orth_fullname == Head(species_left)
         IN  IF /\ curr_orth_fullname \in DOMAIN gene_orthologs
                /\ Len(gene_orthologs[curr_orth_fullname]) > 0
             THEN <<Given(best_of_species(gene_orthologs[curr_orth_fullname], sister)),
                    Given(curr_orth_fullname)>>
             ELSE scan_species(Tail(species_left), gene_orthologs, sister,
                               <<Absent, Given(curr_orth_fullname)>>)

\* self.orthologs[gene_id] on the defaultdict: a missing key is inserted with an
\* empty defaultdict(list)
orthologs_lookup(orthologs, gene_id) ==
    IF gene_id \in DOMAIN orthologs THEN orthologs ELSE Put(orthologs, gene_id, << >>)

\* the orthologs mapping after get_best_orthologs_for_gene
orthologs_after(orthologs, gene_id, orth_species_full_name) ==
    IF Len(orth_species_full_name) > 0 THEN orthologs_lookup(orthologs, gene_id) ELSE orthologs

\* the value get_best_orthologs_for_gene returns
best_orthologs_for_gene(orthologs, gene_id, orth_species_full_name, sister) ==
    IF Len(orth_species_full_name) > 0
    THEN scan_species(orth_species_full_name, orthologs_lookup(orthologs, gene_id)[gene_id],
                      sister, <<Absent, Absent>>)
    ELSE <<Absent, Absent>>

\* the arguments of get_best_orthologs_for_gene
GeneIdArguments == { wb_gene_id(g) : g \in {"WBGene1", "WBGene2", "WBGene9"} }
SisterArguments ==
    {Absent} \cup
    { Given(counts) :
        counts \in [{o[1] : o \in FileOrthologs} -> 0..MaxOrthologAnnotations] }

InitDataManager ==
    /\ FetcherIdle
    /\ cs_call = NoCall
    /\ ox_call = NoCall
    /\ ss_call = NoCall
    /\ ss_other = NoCall
    /\ oh_call = NoCall
    /\ on_call = NoCall
    /\ ah_call = NoCall
    /\ ip_call = NoCall
    /\ dm_orthologs = << >>
    /\ dm_pc = "new"
    /\ dm_call = NoCall

\* load_orthology_from_file: every block closed by '=' is stored under "WB:" + gene_id
load_orthology_from_file ==
    /\ dm_pc = "new"
    /\ dm_call = NoCall
    /\ \E file \in OrthologyFiles :
        dm_orthologs' = scan_orthology_lines(file, "", TRUE, << >>, dm_orthologs)
    /\ dm_pc' = "loaded"
    /\ UNCHANGED <<obo_file, go_ontology, go_data, fetcher_pc, go_call, cs_call, ox_call,
                   generator_calls, ah_call, ip_call, dm_call>>

get_best_orthologs_for_gene ==
    /\ dm_call = NoCall
    /\ \E gene_id \in GeneIdArguments,
          orth_species_full_name \in DistinctUpTo(OrthologySpecies, MaxCandidateSpecies),
          sister \in SisterArguments :
        /\ dm_call' = [op |-> "return",
                       gene_id |-> gene_id,
                       orth_species_full_name |-> orth_species_full_name,
                       sister_species_data_fetcher |-> sister,
                       result |-> best_orthologs_for_gene(dm_orthologs, gene_id,
                                                          orth_species_full_name, sister)]
        /\ dm_orthologs' = orthologs_after(dm_orthologs, gene_id, orth_species_full_name)
    /\ UNCHANGED <<obo_file, go_ontology, go_data, fetcher_pc, go_call, cs_call, ox_call,
                   generator_calls, ah_call, ip_call, dm_pc>>

\* the caller takes the result
get_best_orthologs_for_gene_return ==
    /\ dm_call # NoCall
    /\ dm_call' = NoCall
    /\ UNCHANGED <<obo_file, go_ontology, go_data, fetcher_pc, go_call, cs_call, ox_call,
                   generator_calls, ah_call, ip_call, dm_orthologs, dm_pc>>

NextDataManager ==
    \/ load_orthology_from_file
    \/ get_best_orthologs_for_gene
    \/ get_best_orthologs_for_gene_return

SpecDataManager == InitDataManager /\ [][NextDataManager]_vars

(***************************************************************************)
(* Properties of get_best_orthologs_for_gene                               *)
(***************************************************************************)
BestOrthologsReturned == dm_call # NoCall

\* the ortholog records loaded for the gene of the call and a species
RecordsOf(species) ==
    IF /\ dm_call.gene_id \in DOMAIN dm_orthologs
       /\ species \in DOMAIN dm_orthologs[dm_call.gene_id]
    THEN dm_orthologs[dm_call.gene_id][species]
    ELSE <<>>

\* the positions of the candidate species for which the gene has ortholog records
SpeciesWithRecords ==
    { i \in DOMAIN dm_call.orth_species_full_name :
        Len(RecordsOf(dm_call.orth_species_full_name[i])) > 0 }

FirstSpeciesWithRecords ==
    dm_call.orth_species_full_name[
        CHOOSE i \in SpeciesWithRecords : \A j \in SpeciesWithRecords : i <= j]

\* C25: get_best_orthologs_for_gene returns orthologs of the first candidate
\* species, in list order, for which the gene has ortholog records, with the name
\* of that species; when no candidate species has records the result is (None, None)
C25_FirstSpeciesWithRecords ==
    BestOrthologsReturned =>
        IF SpeciesWithRecords = {}
        THEN dm_call.result = <<Absent, Absent>>
        ELSE /\ dm_call.result[2] = Given(FirstSpeciesWithRecords)
             /\ dm_call.result[1] # Absent
             /\ dm_call.result[1][1] # <<>>
             /\ \A k \in DOMAIN dm_call.result[1][1] :
                    \E i \in DOMAIN RecordsOf(FirstSpeciesWithRecords) :
                        dm_call.result[1][1][k] =
                            SubSeq(RecordsOf(FirstSpeciesWithRecords)[i], 1, 2)

\* the orthologs of the chosen species and the keys they are compared by
ChosenOrthologs == RecordsOf(FirstSpeciesWithRecords)
MethodCount(i) == 1 + Cardinality({ k \in DOMAIN ChosenOrthologs[i][3] : ChosenOrthologs[i][3][k] = ";" })
SisterAnnotationCount(i) == dm_call.sister_species_data_fetcher[1][ChosenOrthologs[i][1]]
IdAndSymbol(i) == <<ChosenOrthologs[i][1], ChosenOrthologs[i][2]>>

\* C26: of the orthologs of the chosen species, get_best_orthologs_for_gene
\* returns the only one when there is one; with a sister species source exactly
\* one that maximizes (method count, annotation count) lexicographically; without
\* it, each ortholog of the maximum method count and no other
C26_BestWithinSpecies ==
    (BestOrthologsReturned /\ SpeciesWithRecords # {}) =>
        LET best == dm_call.result[1][1]
            all == DOMAIN ChosenOrthologs
        IN  IF Len(ChosenOrthologs) = 1
            THEN best = << IdAndSymbol(1) >>
            ELSE IF dm_call.sister_species_data_fetcher # Absent
            THEN /\ Len(best) = 1
                 /\ \E i \in all :
                     /\ best[1] = IdAndSymbol(i)
                     /\ \A j \in all :
                         \/ MethodCount(j) < MethodCount(i)
                         \/ /\ MethodCount(j) = MethodCount(i)
                            /\ SisterAnnotationCount(j) <= SisterAnnotationCount(i)
            ELSE /\ Range(best) =
                        { IdAndSymbol(i) : i \in { i \in all :
                            \A j \in all : MethodCount(j) <= MethodCount(i) } }
                 /\ Len(best) = Cardinality(Range(best))

\* a sister species source breaks the tie of two orthologs of two methods each
\* in favour of the second of them, behind an ortholog of one method
C26_Witness ==
    /\ BestOrthologsReturned
    /\ SpeciesWithRecords # {}
    /\ dm_call.sister_species_data_fetcher # Absent
    /\ Len(ChosenOrthologs) = 3
    /\ MethodCount(1) = 1
    /\ MethodCount(2) = 2
    /\ MethodCount(3) = 2
    /\ SisterAnnotationCount(1) = 1
    /\ SisterAnnotationCount(2) = 0
    /\ SisterAnnotationCount(3) = 1
    /\ dm_call.result[1][1] = << IdAndSymbol(3) >>

\* without a sister species source the two orthologs of two methods are both returned
C26_WitnessTie ==
    /\ BestOrthologsReturned
    /\ SpeciesWithRecords # {}
    /\ dm_call.sister_species_data_fetcher = Absent
    /\ Len(ChosenOrthologs) = 3
    /\ Len(dm_call.result[1][1]) = 2

\* only one ortholog of the chosen species
C26_WitnessSingle ==
    /\ BestOrthologsReturned
    /\ SpeciesWithRecords # {}
    /\ Len(dm_call.orth_species_full_name) = 2
    /\ FirstSpeciesWithRecords = dm_call.orth_species_full_name[2]
    /\ Len(ChosenOrthologs) = 1
    /\ Len(dm_call.result[1][1]) = 1

\* C27: a call of get_best_orthologs_for_gene leaves the orthologs mapping of the
\* data manager as it was: the same gene ids with the same ortholog lists
C27_OrthologsNotModified ==
    [][(dm_call = NoCall /\ dm_call' # NoCall) => dm_orthologs' = dm_orthologs]_vars

(***************************************************************************)
(* data_fetcher.py: _load_go_ontology on ontology files of every shape     *)
(***************************************************************************)
\* the most [Term] blocks of an ontology file
MaxOboBlocks == 3

\* the id, name and is_obsolete lines of the k-th block of a file
OboBlockLines(k) ==
    CASE k = 1 -> << OboId("GO:1"), OboName("binding"), OboObsolete("true") >>
      [] k = 2 -> << OboId("GO:2"), OboName("transport"), OboObsolete("false") >>
      [] OTHER -> << OboId("GO:3"), OboName("growth"), OboObsolete("true") >>

\* a [Term] line and the lines of the k-th block whose field names are kept
OboBlock(k, kept) ==
    <<OboTerm>> \o SelectSeq(OboBlockLines(k), LAMBDA line : line[1] \in kept)

RECURSIVE OboBlocks(_, _)
OboBlocks(k, kept_of) ==
    IF k > Len(kept_of) THEN <<>> ELSE OboBlock(k, kept_of[k]) \o OboBlocks(k + 1, kept_of)

\* a header line, up to MaxOboBlocks [Term] blocks, each with any of its three
\* lines, and a [Typedef] stanza at the end or none
OboBlockFiles ==
    { << <<"format-version", "1.2">> >> \o OboBlocks(1, kept_of) \o typedef :
        kept_of \in SeqUpTo(SUBSET {"id", "name", "is_obsolete"}, MaxOboBlocks),
        typedef \in { <<>>, << <<"[Typedef]">>, OboId("part_of"), OboName("part of") >> } }

InitOntology ==
    /\ obo_file \in OboBlockFiles
    /\ go_ontology = EmptyMap
    /\ go_data = EmptyMap
    /\ fetcher_pc = "idle"
    /\ go_call = NoCall
    /\ cs_call = NoCall
    /\ ox_call = NoCall
    /\ GeneratorsIdle

\* load_go_data calls _load_go_ontology before it reads the annotation file
NextOntology == load_go_data

SpecOntology == InitOntology /\ [][NextOntology]_vars

(***************************************************************************)
(* Properties of _load_go_ontology                                         *)
(***************************************************************************)
OntologyLoaded == fetcher_pc # "idle"

\* the positions of the [Term] lines of the file
TermLines == { i \in DOMAIN obo_file : obo_file[i] = OboTerm }

\* the lines of the block that starts at line i: up to the next stanza or the end
BlockOf(i) ==
    { j \in DOMAIN obo_file :
        /\ j > i
        /\ \A k \in (i + 1)..j : obo_file[k] \notin {OboTerm, <<"[Typedef]">>} }

\* the value of a field in the block that starts at line i, None when it has no such line
BlockField(i, field) ==
    IF \E j \in BlockOf(i) : obo_file[j][1] = field
    THEN obo_file[CHOOSE j \in BlockOf(i) : obo_file[j][1] = field][2]
    ELSE None

BlockEntry(i) == GOOntologyEntry(BlockField(i, "name"), BlockField(i, "is_obsolete"))

\* C28: after _load_go_ontology every [Term] block with an id line and a name
\* line, the last block of the file too, is in go_ontology under its id with its
\* name and is_obsolete value, and every entry has the values of its own block
C28_EveryBlockLoaded ==
    OntologyLoaded =>
        /\ \A i \in TermLines :
            (BlockField(i, "id") # None /\ BlockField(i, "name") # None) =>
                /\ BlockField(i, "id") \in DOMAIN go_ontology
                /\ go_ontology[BlockField(i, "id")] = BlockEntry(i)
        /\ \A go_id \in DOMAIN go_ontology :
            \E i \in TermLines :
                /\ BlockField(i, "id") = go_id
                /\ go_ontology[go_id] = BlockEntry(i)
====
